---- MODULE Spec2Model ----
(***************************************************************************)
(* PaperTrading backend: the authentication and session-lifecycle core.    *)
(*                                                                         *)
(* The model holds the two tables of the relational store (users,          *)
(* refresh_tokens), a clock, and a fixed number of concurrent request      *)
(* handlers.  Every service call is split at its database round trips:     *)
(* one action per SQL statement, with the local computation that follows   *)
(* the statement (hashing, token minting, time.Now()) folded into it.      *)
(* Every statement takes a fault input: the backend may answer with a      *)
(* server error (pgconn.PgError) or the driver may fail without one (a     *)
(* cancelled context: chi's 60 s request timeout, a lost connection).      *)
(***************************************************************************)
EXTENDS Integers, Sequences, FiniteSets, TLC

VARIABLES
    users,          \* table users: set of rows [id, email, passwordHash]
    refreshTokens,  \* table refresh_tokens: set of rows [userID, tokenHash, expiresAt]
    now,            \* the clock (time.Now() and the database's NOW()), in seconds
    minted,         \* opaque token strings crypto/rand has produced so far
    faults,         \* number of backend faults injected so far
    ncalls,         \* number of service calls started so far
    used,           \* history: refresh tokens a successful ProcessRefreshToken consumed
    loggedIn,       \* history: ids of the users a LoginUser has succeeded for
    ledger,         \* history: the refresh tokens handed out, the rows revoked or purged
    call,           \* per handler: the call in progress or the last call's outcome
    storeCall,      \* the last call made on a store directly: arguments and results
    request,        \* the request at the Authenticate middleware and its outcome
    subsec,         \* the clock's reading below the second, in 1/SubSteps s
    proc            \* the server process: its environment, configuration, secret

\* what the service's calls leave alone
aux == <<storeCall, request, subsec, proc>>

vars ==
    <<users, refreshTokens, now, minted, faults, ncalls, used, loggedIn, ledger, call, aux>>

-----------------------------------------------------------------------------
(* Bounds of the model *)

NumProcs == 2      \* concurrent request handlers
MaxCalls == 3      \* service calls per behaviour
MaxTime == 2       \* the clock runs 0..MaxTime
MaxTokens == 3     \* opaque tokens crypto/rand can still produce
MaxFaults == 1     \* backend faults per behaviour
SubSteps == 2      \* clock readings told apart within one second
MaxRows == 2       \* token hashes known to the stores when called directly
RefreshTTL == 2    \* cfg.RefreshTokenExpiration, in clock ticks (> 0)
AccessTTL == 1     \* cfg.JWTExpiration, in clock ticks (> 0)

(* Program constants *)

MinPasswordLen == 8   \* RegisterUser: len(input.Password) < 8
Base64Len == 44       \* base64.URLEncoding.EncodeToString of 32 bytes
LogPrefix == 10       \* minhashes(len(...), 10) in the log calls
VarcharLen == 255     \* users.email VARCHAR(255)

Procs == 1..NumProcs

-----------------------------------------------------------------------------
(* Inputs *)

S16 == "eeeeeeeeeeeeeeee"
S64 == S16 \o S16 \o S16 \o S16
\* an address of 256 characters: one more than users.email holds
LongEmail == S64 \o S64 \o S64 \o S64

Emails == {"", "a@x.io", "b@x.io", LongEmail}
\* a password of 7 characters, two of which take two bytes in UTF-8
WidePassword == "pässwör"
Passwords == {"", "short", "password123", "hunter2hunter2", WidePassword}

\* the bytes the UTF-8 encoding of s takes beyond one per character
ExtraBytes(s) == IF s = WidePassword THEN 2 ELSE 0

\* Go's len(s) of a string: its number of bytes (Len counts characters)
len(s) == Len(s) + ExtraBytes(s)

\* the {email, password} bodies a client sends: every kind of email with a
\* good password, every kind of password with a good email
Requests ==
    {[email |-> e, password |-> "password123"] : e \in Emails}
    \cup {[email |-> "a@x.io", password |-> pw] : pw \in Passwords}

\* what crypto/rand + base64 can return: 32 random bytes, abstracted to an index
OpaqueTokens == {<<"b64", i>> : i \in 1..MaxTokens}
EmptyString == <<>>
\* a string of 3 characters, which no call of generateOpaqueTokenString returns
ShortString == <<"abc", 0>>
\* what a client can put in the refreshToken cookie
PresentedTokens == OpaqueTokens \cup {EmptyString, ShortString}

\* a fault of one SQL statement: none, a server-side error other than a
\* constraint violation (pgconn.PgError), or an error that is no PgError
Faults == {"none", "pg", "conn"}
\* the same for a statement whose caller never looks at the kind of the
\* backend's error: one fault stands for both
StmtFaults == {"none", "conn"}

-----------------------------------------------------------------------------
(* Values *)

\* (*user.User)(nil)
NilUser == [id |-> -1, email |-> "", passwordHash |-> <<>>]
\* user.User{}: what `var u user.User` holds when Scan did not fill it
ZeroUser == [id |-> 0, email |-> "", passwordHash |-> <<>>]

NoToken == <<>>
NoAccess == [uid |-> -1, email |-> "", exp |-> -1, iat |-> -1, nbf |-> -1,
             iss |-> "", sub |-> -1, alg |-> "", key |-> ""]

\* an error value: msg is the outermost message, is the sentinel (or backend
\* error) found by errors.Is / errors.As along its %w chain
Err(msg, is) == [msg |-> msg, is |-> is]
NilErr == Err("", "nil")

ErrInvalidCredentials == Err("invalid email or password", "ErrInvalidCredentials")
ErrTokenExpired == Err("token has expired", "ErrTokenExpired")
ErrTokenNotValidYet == Err("token not valid yet", "ErrTokenNotValidYet")
ErrInvalidToken == Err("invalid token", "ErrInvalidToken")
ErrUserNotFound == Err("user not found", "ErrUserNotFound")
ErrUserAlreadyExists == Err("user already exists", "ErrUserAlreadyExists")
ErrRefreshTokenNotFound == Err("refresh token not found", "ErrRefreshTokenNotFound")

ErrorsIs(err, target) == err.is = target.is

\* fmt.Errorf(msg + ": %w", err)
Wrap(msg, err) == Err(msg, err.is)

\* the error the driver returns for a faulted statement
BackendErr(fault) == IF fault = "pg" THEN Err("pg error", "PgError")
                     ELSE Err("driver error", "other")

-----------------------------------------------------------------------------
(* Configuration and start-up *)

\* an environment variable: whether os.LookupEnv finds it, and its value
EnvVar(exists, value) == [exists |-> exists, value |-> value]
UnsetVar == EnvVar(FALSE, "")

\* the environments the process can be started in, as they are once
\* godotenv.Load has added what a .env file sets: the variables that decide
\* the signing secret and the cookies
Environments ==
    [JWT_SECRET : {UnsetVar, EnvVar(TRUE, ""), EnvVar(TRUE, "default"),
                   EnvVar(TRUE, "s3cr3t")},
     APP_ENV : {UnsetVar, EnvVar(TRUE, "production")},
     DB_SSLMODE : {UnsetVar, EnvVar(TRUE, "require")}]

\* a development machine: only the secret is set
DefaultEnv ==
    [JWT_SECRET |-> EnvVar(TRUE, "s3cr3t"), APP_ENV |-> UnsetVar,
     DB_SSLMODE |-> UnsetVar]

getEnv(env, key, fallback) ==
    IF env[key].exists THEN env[key].value ELSE fallback

\* config.Config, the fields the model follows (the token lifetimes are the
\* bounds AccessTTL and RefreshTTL)
Config(appEnv, jwtSecret, dbSslMode) ==
    [AppEnv |-> appEnv, JWTSecret |-> jwtSecret, DBSslMode |-> dbSslMode]
NoConfig == Config("", "", "")

\* a variant that refuses the fallback only
Load_FallbackOnly(env) ==
    LET cfg == Config(getEnv(env, "APP_ENV", "development"),
                      getEnv(env, "JWT_SECRET", "default"),
                      getEnv(env, "DB_SSLMODE", "disable"))
    IN  [cfg |-> cfg, fatal |-> (cfg.JWTSecret = "default")]

\* config.Load: [cfg, fatal]; fatal is log.Fatalf, which ends the process
Load(env) ==
    LET cfg == Config(getEnv(env, "APP_ENV", "development"),
                      getEnv(env, "JWT_SECRET", "default"),
                      getEnv(env, "DB_SSLMODE", "disable"))
    IN  [cfg |-> cfg, fatal |-> (cfg.JWTSecret = "default" \/ cfg.JWTSecret = "")]

\* the process: pc is "start" (main entered), "loaded" (config.Load
\* returned), "serving" (the stores, the AuthService, the handlers and the
\* router are built) or "exited"; jwtSecret is the AuthService's field
Process(pc, env, cfg, jwtSecret) ==
    [pc |-> pc, env |-> env, cfg |-> cfg, jwtSecret |-> jwtSecret]

\* NewAuthService: the service takes its secret from the configuration
NewAuthService(p) == Process("serving", p.env, p.cfg, p.cfg.JWTSecret)

\* main, from its entry to the router: the process that serves requests in
\* environment env
Started(env) == NewAuthService(Process("loaded", env, Load(env).cfg, ""))

-----------------------------------------------------------------------------
(* Credential hasher *)

\* bcrypt.GenerateFromPassword: a salted digest that embeds what it was made from
HashPassword(password) == <<"bcrypt", password>>

\* a variant that tests the comparison's error the wrong way round
CheckPasswordHash_Inverted(password, hash) ==
    ~(/\ Len(hash) = 2
      /\ hash[1] = "bcrypt"
      /\ hash[2] = password)

CheckPasswordHash(password, hash) ==
    /\ Len(hash) = 2
    /\ hash[1] = "bcrypt"
    /\ hash[2] = password

-----------------------------------------------------------------------------
(* Token minting *)

\* t is the clock's whole second: jwt.NewNumericDate drops what time.Now()
\* reads below the second, and cfg.JWTExpiration is a number of minutes
GenerateAccessToken(u, t) ==
    [uid |-> u.id, email |-> u.email,
     exp |-> t + AccessTTL, iat |-> t, nbf |-> t,
     iss |-> "PaperTradingApp", sub |-> u.id,
     alg |-> "HS256", key |-> proc.jwtSecret]

-----------------------------------------------------------------------------
(* Access-token validation *)

\* jwt.SigningMethodHMAC: the methods the key function lets through
HMACFamily == {"HS256", "HS384", "HS512"}

\* the token strings a client can send, given the access token tok it holds:
\* tok itself, the empty string, tok re-signed without the secret (with its
\* expiry pushed out or not), and tok under alg "none" and under RS256
AccessTokenStrings(tok) ==
    {tok, NoAccess,
     [tok EXCEPT !.key = "forged"],
     [tok EXCEPT !.key = "forged", !.exp = tok.exp + 1],
     [tok EXCEPT !.alg = "none", !.key = ""],
     [tok EXCEPT !.alg = "RS256", !.key = "forged"]}

\* a variant that tests the expiry only, after the library's own error
ValidateToken_OneErrorKind(tokenString, t) ==
    IF tokenString.alg = ""
    THEN [claims |-> NoAccess, err |-> ErrInvalidToken]
    ELSE IF tokenString.alg \notin HMACFamily
    THEN [claims |-> NoAccess, err |-> ErrInvalidToken]
    ELSE IF tokenString.key # proc.jwtSecret
    THEN [claims |-> NoAccess, err |-> ErrInvalidToken]
    ELSE IF ~(t < tokenString.exp)
    THEN [claims |-> NoAccess, err |-> ErrTokenExpired]
    ELSE IF t < tokenString.nbf
    THEN [claims |-> NoAccess, err |-> ErrInvalidToken]
    ELSE [claims |-> tokenString, err |-> NilErr]

\* a variant that still accepts a token at its expiry instant
ValidateToken_ValidAtExpiry(tokenString, t) ==
    IF tokenString.alg = ""
    THEN [claims |-> NoAccess, err |-> ErrInvalidToken]
    ELSE IF tokenString.alg \notin HMACFamily
    THEN [claims |-> NoAccess, err |-> ErrInvalidToken]
    ELSE IF tokenString.key # proc.jwtSecret
    THEN [claims |-> NoAccess, err |-> ErrInvalidToken]
    ELSE IF t > tokenString.exp
    THEN [claims |-> NoAccess, err |-> ErrTokenExpired]
    ELSE IF t < tokenString.nbf
    THEN [claims |-> NoAccess, err |-> ErrTokenNotValidYet]
    ELSE [claims |-> tokenString, err |-> NilErr]

\* a variant that asks the store whether the user still has a session
ValidateToken_NeedsSession(tokenString, t) ==
    IF tokenString.alg = ""
    THEN [claims |-> NoAccess, err |-> ErrInvalidToken]
    ELSE IF tokenString.alg \notin HMACFamily
    THEN [claims |-> NoAccess, err |-> ErrInvalidToken]
    ELSE IF tokenString.key # proc.jwtSecret
    THEN [claims |-> NoAccess, err |-> ErrInvalidToken]
    ELSE IF ~(t < tokenString.exp)
    THEN [claims |-> NoAccess, err |-> ErrTokenExpired]
    ELSE IF t < tokenString.nbf
    THEN [claims |-> NoAccess, err |-> ErrTokenNotValidYet]
    ELSE IF \A r \in refreshTokens : r.userID # tokenString.uid
    THEN [claims |-> NoAccess, err |-> ErrInvalidToken]
    ELSE [claims |-> tokenString, err |-> NilErr]

\* ValidateToken at the clock's second t: [claims, err].  jwt.ParseWithClaims
\* splits and decodes the string, asks the key function (which refuses every
\* method outside the HMAC family), verifies the signature and then checks
\* the registered claims: exp with now.Before(exp), nbf with !now.Before(nbf);
\* a time below the second never makes now earlier than a whole second
ValidateToken(tokenString, t) ==
    IF tokenString.alg = ""
    THEN [claims |-> NoAccess, err |-> ErrInvalidToken]
    ELSE IF tokenString.alg \notin HMACFamily
    THEN [claims |-> NoAccess, err |-> ErrInvalidToken]
    ELSE IF tokenString.key # proc.jwtSecret
    THEN [claims |-> NoAccess, err |-> ErrInvalidToken]
    ELSE IF ~(t < tokenString.exp)
    THEN [claims |-> NoAccess, err |-> ErrTokenExpired]
    ELSE IF t < tokenString.nbf
    THEN [claims |-> NoAccess, err |-> ErrTokenNotValidYet]
    ELSE [claims |-> tokenString, err |-> NilErr]

\* 32 bytes of crypto/rand, base64url: a string no earlier call has returned
\* (256 random bits do not repeat).  Which fresh string it is does not
\* matter, so the tokens come in the order of their index.
generateOpaqueTokenString ==
    {t \in OpaqueTokens \ minted : t[2] = Cardinality(minted) + 1}

\* base64url(SHA-256(token)): injective, and never the token itself
hashToken(token) == <<"sha256", token>>

\* len(s) of a token string or a hash: base64.URLEncoding of 32 bytes has
\* Base64Len characters
TokenLen(s) ==
    IF s = EmptyString THEN 0
    ELSE IF s[1] \in {"b64", "sha256"} THEN Base64Len
    ELSE Len(s[1])

minhashes(a, b) == IF a < b THEN a ELSE b

\* s[:n] for n <= len(s): the whole of s, or its first n characters
Slice(s, n) == IF n = TokenLen(s) THEN s ELSE <<"slice", s, n>>

\* what a log line shows of s: s[:minhashes(len(s), 10)]
Shown(s) == Slice(s, minhashes(TokenLen(s), LogPrefix))

-----------------------------------------------------------------------------
(* User store *)

UserByEmail(email) == {r \in users : r.email = email}

\* uuid_generate_v4(): an id no row has
NewUserID == Cardinality(users) + 1

\* FindUserByEmailInDB: [u, err]
FindUserByEmailInDB(email, fault) ==
    IF fault # "none"
    THEN [u |-> NilUser, err |-> Wrap("could not find user by email", BackendErr(fault))]
    ELSE IF UserByEmail(email) = {}
    THEN [u |-> NilUser, err |-> ErrUserNotFound]
    ELSE [u |-> CHOOSE r \in UserByEmail(email) : TRUE, err |-> NilErr]

\* a users table whose email column lost its UNIQUE constraint
InsertUserOutcome_NoUnique(email, fault) ==
    IF fault = "conn" THEN "conn"
    ELSE IF fault = "pg" THEN "pg"
    ELSE IF Len(email) > VarcharLen THEN "pg"
    ELSE "ok"

\* the INSERT of CreateUserInDB as the backend answers it:
\* "ok", "23505" (unique violation), "pg" (another server error), "conn"
InsertUserOutcome(email, fault) ==
    IF fault = "conn" THEN "conn"
    ELSE IF fault = "pg" THEN "pg"
    ELSE IF Len(email) > VarcharLen THEN "pg"
    ELSE IF UserByEmail(email) # {} THEN "23505"
    ELSE "ok"

\* CreateUserInDB: [u, err, users]
CreateUserInDB(email, passwordHash, fault) ==
    LET out == InsertUserOutcome(email, fault)
        row == [id |-> NewUserID, email |-> email, passwordHash |-> passwordHash]
    IN  IF out = "ok"
        THEN [u |-> row, err |-> NilErr, users |-> users \cup {row}]
        ELSE IF out = "23505"
        THEN [u |-> NilUser,
              err |-> Wrap("user with email already exists", ErrUserAlreadyExists),
              users |-> users]
        ELSE IF out = "pg"
        THEN [u |-> NilUser,
              err |-> Wrap("could not find user by email", BackendErr("pg")),
              users |-> users]
        \* err is no *pgconn.PgError: neither branch returns, and the
        \* function falls through to `return &u, nil`
        ELSE [u |-> ZeroUser, err |-> NilErr, users |-> users]

-----------------------------------------------------------------------------
(* Token store *)

RowsByHash(tokenHash) == {r \in refreshTokens : r.tokenHash = tokenHash}

\* the INSERT of SaveRefreshToken as the backend answers it: the UNIQUE
\* constraint on token_hash and the foreign key on user_id are the store's
InsertTokenOutcome(userID, tokenHash, fault) ==
    IF fault # "none" THEN fault
    ELSE IF RowsByHash(tokenHash) # {} THEN "23505"
    ELSE IF {r \in users : r.id = userID} = {} THEN "23503"
    ELSE "ok"

\* a variant that takes the unique violation for a row already saved
SaveRefreshToken_SwallowConflict(userID, tokenHash, expiresAt, fault) ==
    LET out == InsertTokenOutcome(userID, tokenHash, fault)
        row == [userID |-> userID, tokenHash |-> tokenHash, expiresAt |-> expiresAt]
    IN  IF out = "ok"
        THEN [err |-> NilErr, refreshTokens |-> refreshTokens \cup {row}]
        ELSE IF out = "23505"
        THEN [err |-> NilErr, refreshTokens |-> refreshTokens]
        ELSE [err |-> Wrap("failed to save refresh token",
                           BackendErr(IF out = "conn" THEN "conn" ELSE "pg")),
              refreshTokens |-> refreshTokens]

\* SaveRefreshToken: [err, refreshTokens]
SaveRefreshToken(userID, tokenHash, expiresAt, fault) ==
    LET out == InsertTokenOutcome(userID, tokenHash, fault)
        row == [userID |-> userID, tokenHash |-> tokenHash, expiresAt |-> expiresAt]
    IN  IF out = "ok"
        THEN [err |-> NilErr, refreshTokens |-> refreshTokens \cup {row}]
        ELSE IF out = "23505"
        THEN [err |-> Wrap("failed to save refresh token due to conflict", BackendErr("pg")),
              refreshTokens |-> refreshTokens]
        ELSE [err |-> Wrap("failed to save refresh token",
                           BackendErr(IF out = "conn" THEN "conn" ELSE "pg")),
              refreshTokens |-> refreshTokens]

\* a variant that still takes a row at its expiry instant
ValidRows_AtExpiry(tokenHash) ==
    {u \in users : \E rt \in refreshTokens :
        /\ rt.userID = u.id
        /\ rt.tokenHash = tokenHash
        /\ rt.expiresAt >= now}

\* a variant whose join lacks its ON condition
ValidRows_CrossJoin(tokenHash) ==
    {u \in users : \E rt \in refreshTokens :
        /\ rt.tokenHash = tokenHash
        /\ rt.expiresAt > now}

\* the rows of: refresh_tokens rt JOIN users u ON rt.user_id = u.id
\*              WHERE rt.token_hash = $1 AND rt.expires_at > NOW()
ValidRows(tokenHash) ==
    {u \in users : \E rt \in refreshTokens :
        /\ rt.userID = u.id
        /\ rt.tokenHash = tokenHash
        /\ rt.expiresAt > now}

\* ValidateAndFetchUserByTokenHash: [u, err]
ValidateAndFetchUserByTokenHash(tokenHash, fault) ==
    IF fault # "none"
    THEN [u |-> NilUser,
          err |-> Wrap("error validating refresh token from DB", BackendErr(fault))]
    ELSE IF ValidRows(tokenHash) = {}
    THEN [u |-> NilUser, err |-> ErrRefreshTokenNotFound]
    ELSE [u |-> CHOOSE u \in ValidRows(tokenHash) : TRUE, err |-> NilErr]

\* a variant that reports zero rows affected as an error
DeleteRefreshTokenByHash_MissingIsError(tokenHash, fault) ==
    IF fault # "none"
    THEN [err |-> Wrap("failed to delete refresh token from DB", BackendErr(fault)),
          refreshTokens |-> refreshTokens]
    ELSE IF RowsByHash(tokenHash) = {}
    THEN [err |-> ErrRefreshTokenNotFound, refreshTokens |-> refreshTokens]
    ELSE [err |-> NilErr, refreshTokens |-> refreshTokens \ RowsByHash(tokenHash)]

\* DeleteRefreshTokenByHash: [err, refreshTokens]; zero rows affected is
\* logged and is no error
DeleteRefreshTokenByHash(tokenHash, fault) ==
    IF fault # "none"
    THEN [err |-> Wrap("failed to delete refresh token from DB", BackendErr(fault)),
          refreshTokens |-> refreshTokens]
    ELSE [err |-> NilErr, refreshTokens |-> refreshTokens \ RowsByHash(tokenHash)]

\* a variant whose DELETE also asks for expires_at <= NOW()
DeleteUserRefreshTokens_OnlyExpired(userID, fault) ==
    IF fault # "none"
    THEN [err |-> Wrap("failed to delete user's refresh tokens", BackendErr(fault)),
          refreshTokens |-> refreshTokens]
    ELSE [err |-> NilErr,
          refreshTokens |-> {r \in refreshTokens :
                               r.userID # userID \/ r.expiresAt > now}]

\* DeleteUserRefreshTokens: [err, refreshTokens]
DeleteUserRefreshTokens(userID, fault) ==
    IF fault # "none"
    THEN [err |-> Wrap("failed to delete user's refresh tokens", BackendErr(fault)),
          refreshTokens |-> refreshTokens]
    ELSE [err |-> NilErr,
          refreshTokens |-> {r \in refreshTokens : r.userID # userID}]

\* a variant that spares the rows expiring at this very instant
DeleteExpiredTokens_StrictlyBefore(fault) ==
    IF fault # "none"
    THEN [n |-> 0,
          err |-> Wrap("failed to delete expired refresh tokens", BackendErr(fault)),
          refreshTokens |-> refreshTokens]
    ELSE [n |-> Cardinality({r \in refreshTokens : r.expiresAt < now}),
          err |-> NilErr,
          refreshTokens |-> {r \in refreshTokens : ~(r.expiresAt < now)}]

\* a variant that purges one second ahead of the clock
DeleteExpiredTokens_Ahead(fault) ==
    IF fault # "none"
    THEN [n |-> 0,
          err |-> Wrap("failed to delete expired refresh tokens", BackendErr(fault)),
          refreshTokens |-> refreshTokens]
    ELSE [n |-> Cardinality({r \in refreshTokens : r.expiresAt <= now + 1}),
          err |-> NilErr,
          refreshTokens |-> {r \in refreshTokens : ~(r.expiresAt <= now + 1)}]

\* DeleteExpiredTokens: [n, err, refreshTokens]
DeleteExpiredTokens(fault) ==
    IF fault # "none"
    THEN [n |-> 0,
          err |-> Wrap("failed to delete expired refresh tokens", BackendErr(fault)),
          refreshTokens |-> refreshTokens]
    ELSE [n |-> Cardinality({r \in refreshTokens : r.expiresAt <= now}),
          err |-> NilErr,
          refreshTokens |-> {r \in refreshTokens : ~(r.expiresAt <= now)}]

-----------------------------------------------------------------------------
(* Results and HTTP responses *)

NilInfo == [id |-> -1, email |-> ""]

\* a variant that copies the whole user record
ToUserInfoForResponse_WholeUser(u) ==
    IF u = NilUser THEN [id |-> 0, email |-> ""]
    ELSE u

\* ToUserInfoForResponse: the projection sent outward
ToUserInfoForResponse(u) ==
    IF u = NilUser THEN [id |-> 0, email |-> ""]
    ELSE [id |-> u.id, email |-> u.email]

\* what a service call returned: err; user (RegisterUser's *user.User);
\* access, refresh, info (LoginUserResponse / RefreshTokenResponse)
Result(err, user, access, refresh, info) ==
    [err |-> err, user |-> user, access |-> access, refresh |-> refresh, info |-> info]
NoRes == Result(NilErr, NilUser, NoAccess, NoToken, NilInfo)
Failed(err) == Result(err, NilUser, NoAccess, NoToken, NilInfo)

\* an http.Cookie named refreshToken as the handlers fill it in; expires is
\* -1 and maxAge 0 where the handler leaves the field unset
Cookie(value, secure, maxAge, expires) ==
    [name |-> "refreshToken", value |-> value, path |-> "/api/auth",
     httpOnly |-> TRUE, secure |-> secure, sameSite |-> "Strict",
     maxAge |-> maxAge, expires |-> expires]
\* no Set-Cookie header
NoCookie ==
    [name |-> "", value |-> NoToken, path |-> "", httpOnly |-> FALSE,
     secure |-> FALSE, sameSite |-> "", maxAge |-> 0, expires |-> -1]

\* a variant that takes Secure from the database's TLS mode
SetRefreshCookie_SslMode(value) ==
    Cookie(value, proc.cfg.DBSslMode # "disable", 0, now + RefreshTTL)

\* the cookie Login and RefreshToken set for a refresh token
SetRefreshCookie(value) ==
    Cookie(value, proc.cfg.AppEnv = "production", 0, now + RefreshTTL)

\* what a handler wrote: status, the body's "error", "message", "accessToken"
\* and user fields, and the refreshToken cookie it set
Http(status, error, accessToken, user, cookie) ==
    [status |-> status, error |-> error, message |-> "",
     accessToken |-> accessToken, user |-> user, cookie |-> cookie]
NoHttp == Http(0, "", NoAccess, NilInfo, NoCookie)
RespondWithError(code, message) == Http(code, message, NoAccess, NilInfo, NoCookie)

\* Handler.Register, given what RegisterUser returned
HandlerRegister(email, password, res) ==
    IF email = "" \/ password = ""
    THEN RespondWithError(400, "Email and password are required")
    ELSE IF res.err # NilErr
    THEN IF ErrorsIs(res.err, ErrUserAlreadyExists)
         THEN RespondWithError(409, "User with this email already exists")
         ELSE IF res.err.msg = "password must be at least 8 characters long"
         THEN RespondWithError(400, res.err.msg)
         ELSE RespondWithError(500, "Failed to register user")
    ELSE Http(201, "", NoAccess, ToUserInfoForResponse(res.user), NoCookie)

\* Handler.Login, given what LoginUser returned
HandlerLogin(email, password, res) ==
    IF email = "" \/ password = ""
    THEN RespondWithError(400, "Email and password are required")
    ELSE IF res.err # NilErr
    THEN IF ErrorsIs(res.err, ErrInvalidCredentials)
         THEN RespondWithError(401, "Invalid email or password")
         ELSE RespondWithError(500, "Failed to log in")
    ELSE Http(200, "", res.access, res.info, SetRefreshCookie(res.refresh))

\* Handler.RefreshToken, given what ProcessRefreshToken returned
HandlerRefreshToken(tok, res) ==
    IF tok = EmptyString
    THEN RespondWithError(401, "Refresh token is empty")
    ELSE IF res.err # NilErr
    THEN IF ErrorsIs(res.err, ErrInvalidToken)
         THEN RespondWithError(401, "Invalid or expired refresh token")
         ELSE RespondWithError(500, "Could not refresh token")
    ELSE Http(200, "", res.access, NilInfo, SetRefreshCookie(res.refresh))

\* Handler.Logout, given whether the request carries a refreshToken cookie:
\* it answers, and clears the cookie when one was sent
HandlerLogout(sent) ==
    IF ~sent
    THEN [Http(200, "", NoAccess, NilInfo, NoCookie) EXCEPT
             !.message = "No active session to logout or already logged out"]
    ELSE [Http(200, "", NoAccess, NilInfo,
               Cookie(EmptyString, proc.cfg.DBSslMode # "disable", -1, -1)) EXCEPT
             !.message = "Successfully logged out"]

-----------------------------------------------------------------------------
(* The Authenticate middleware *)

\* an Authorization header: the words strings.Split(authHeader, " ") gives
\* (none for a missing header), the first of them, and the second as a token
Header(words, scheme, token) == [words |-> words, scheme |-> scheme, token |-> token]
NoHeader == Header(0, "", NoAccess)

\* the headers a client holding tok can send
Headers(tok) ==
    {NoHeader, Header(1, "Bearer", NoAccess)}
    \cup {Header(2, sc, t) : sc \in {"Bearer", "bearer", "Basic"},
                             t \in AccessTokenStrings(tok)}
    \cup {Header(3, "Bearer", tok)}

\* a variant whose error branch lacks its return
Authenticate_NoReturn(header, t) ==
    LET none == [claims |-> NoAccess, err |-> NilErr]
    IN  IF header.words = 0
        THEN [http |-> RespondWithError(401, "Authorization header required"),
              next |-> FALSE, ctx |-> NoAccess, v |-> none]
        ELSE IF header.words # 2 \/ header.scheme \notin {"Bearer", "bearer"}
        THEN [http |-> RespondWithError(401,
                          "Authorization header format must be Bearer {token}"),
              next |-> FALSE, ctx |-> NoAccess, v |-> none]
        ELSE LET v == ValidateToken(header.token, t)
             IN  IF v.err # NilErr
                 THEN [http |-> IF ErrorsIs(v.err, ErrTokenExpired)
                                THEN RespondWithError(401, "Token has expired")
                                ELSE RespondWithError(401, "Invalid or malformed token"),
                       next |-> TRUE, ctx |-> v.claims, v |-> v]
                 ELSE [http |-> NoHttp, next |-> TRUE, ctx |-> v.claims, v |-> v]

\* Middleware.Authenticate at the clock's second t: what it writes (http),
\* whether it calls the downstream handler (next), the claims it puts in the
\* request context (ctx, read back by GetUserClaims), and what ValidateToken
\* returned to it (v)
Authenticate(header, t) ==
    LET none == [claims |-> NoAccess, err |-> NilErr]
    IN  IF header.words = 0
        THEN [http |-> RespondWithError(401, "Authorization header required"),
              next |-> FALSE, ctx |-> NoAccess, v |-> none]
        ELSE IF header.words # 2 \/ header.scheme \notin {"Bearer", "bearer"}
        THEN [http |-> RespondWithError(401,
                          "Authorization header format must be Bearer {token}"),
              next |-> FALSE, ctx |-> NoAccess, v |-> none]
        ELSE LET v == ValidateToken(header.token, t)
             IN  IF v.err # NilErr
                 THEN [http |-> IF ErrorsIs(v.err, ErrTokenExpired)
                                THEN RespondWithError(401, "Token has expired")
                                ELSE RespondWithError(401, "Invalid or malformed token"),
                       next |-> FALSE, ctx |-> NoAccess, v |-> v]
                 ELSE [http |-> NoHttp, next |-> TRUE, ctx |-> v.claims, v |-> v]

\* no request at the middleware yet.  tok: the access token the client
\* holds; mintedAt: the clock reading <<second, below>> GenerateAccessToken
\* made it at; header, at: what the client sent, and when; outcome:
\* what Authenticate did with it
NoRequest ==
    [pc |-> "idle", tok |-> NoAccess, mintedAt |-> <<-1, 0>>,
     header |-> NoHeader, at |-> <<-1, 0>>,
     outcome |-> Authenticate(NoHeader, 0)]

-----------------------------------------------------------------------------
(* Calls *)

\* A call record holds the code's locals (email, password, tok, u, access,
\* newTok, expiresAt), what the call returned (res) and what its handler
\* wrote (http), and the history the properties read:
\*   pre      how the store stood to the input when the call started
\*            register: "unused" | "in_use"   (the email)
\*            login:    "no_user" | "bad_password" | "registered"
\*            refresh:  "valid" | "invalid"   (the presented token)
\*            logout:   "no_cookie" | "valid" | "invalid"   (the cookie sent)
\*   stale    refresh: the token had been consumed by a successful rotation
\*   delErr   refresh: DeleteRefreshTokenByHash returned an error
\*   raced    register: the INSERT met a row created after the lookup
\*   logs     what the call's log lines (service and token store) show of
\*            the presented token and of its hash
\*   revoked  refresh: DeleteUserRefreshTokens for the call's user returned
\*            without error while the call was in flight, and no LoginUser
\*            for that user has succeeded since
\*   faulted  some statement of the call met a backend (or hasher) fault
\*   ticked   the clock ticked while the call was in flight
IdleCall ==
    [op |-> "none", pc |-> "idle", email |-> "", password |-> "", tok |-> NoToken,
     u |-> NilUser, access |-> NoAccess, newTok |-> NoToken, expiresAt |-> -1,
     res |-> NoRes, http |-> NoHttp, logs |-> {},
     pre |-> "", stale |-> FALSE, delErr |-> FALSE, raced |-> FALSE,
     revoked |-> FALSE, faulted |-> FALSE, ticked |-> FALSE]

\* no call on a store yet.  hash, userID, email, expiresAt: the arguments;
\* err, u, n: what the call returned; users0, tokens0, now0: the tables and
\* the clock when it was made
NoStoreCall ==
    [op |-> "none", hash |-> <<>>, userID |-> -1, email |-> "", expiresAt |-> -1,
     fault |-> "none", err |-> NilErr, u |-> NilUser, n |-> 0,
     users0 |-> {}, tokens0 |-> {}, now0 |-> 0]

\* The ledger: issued holds, for each refresh token a successful LoginUser
\* or ProcessRefreshToken has returned, its user and the login token it
\* descends from (itself, for a login); removed holds the rows that
\* DeleteUserRefreshTokens and DeleteExpiredTokens have deleted.
NoLedger == [issued |-> {}, removed |-> {}]

\* the login token that tok descends from
LoginOf(tok) ==
    IF \E i \in ledger.issued : i.tok = tok
    THEN (CHOOSE i \in ledger.issued : i.tok = tok).login
    ELSE NoToken

Issue(userID, tok, login) ==
    [ledger EXCEPT !.issued = @ \cup {[tok |-> tok, userID |-> userID, login |-> login]}]

Remove(rows) == [ledger EXCEPT !.removed = @ \cup rows]

\* the store outlives the process: at start-up the users table is empty or
\* holds the row an earlier RegisterUser("a@x.io", "password123") created
StoredUsers ==
    {{}, {[id |-> 1, email |-> "a@x.io", passwordHash |-> HashPassword("password123")]}}

Init ==
    /\ users \in StoredUsers
    /\ refreshTokens = {}
    /\ now = 0
    /\ minted = {}
    /\ faults = 0
    /\ ncalls = 0
    /\ used = {}
    /\ loggedIn = {}
    /\ ledger = NoLedger
    /\ call = [p \in Procs |-> IdleCall]
    /\ storeCall = NoStoreCall
    /\ request = NoRequest
    /\ subsec = 0
    /\ proc = Started(DefaultEnv)

InFlight(p) == call[p].pc \notin {"idle", "done"}

\* a handler takes its next request
CanStart(p) == ~InFlight(p) /\ ncalls < MaxCalls

\* the backend may fault while the budget lasts
CanFault(fault) == fault = "none" \/ faults < MaxFaults
Count(fault) == IF fault = "none" THEN 0 ELSE 1

\* One tick of the clock is longer than a request may last (main.go: chi's
\* middleware.Timeout(60 * time.Second); the token lifetimes are minutes and
\* days), so a call in flight sees at most one tick.
Tick ==
    /\ now < MaxTime
    /\ \A p \in Procs : InFlight(p) => ~call[p].ticked
    /\ now' = now + 1
    /\ call' = [p \in Procs |->
                  IF InFlight(p) THEN [call[p] EXCEPT !.ticked = TRUE] ELSE call[p]]
    /\ UNCHANGED <<users, refreshTokens, minted, faults, ncalls,
                   used, loggedIn, ledger, aux>>

\* the call of handler p ends: what it returned, what the handler wrote
Done(c, res, http) ==
    [c EXCEPT !.pc = "done", !.res = res, !.http = http, !.ticked = FALSE]

-----------------------------------------------------------------------------
(* RegisterUser *)

\* a variant that reports an existing user with an error of no kind
RegisterUserCheck_PlainError(email, password, fault) ==
    IF email = "" \/ password = ""
    THEN [next |-> "done", store |-> FALSE,
          err |-> Err("email and password are required", "input")]
    ELSE IF len(password) < MinPasswordLen
    THEN [next |-> "done", store |-> FALSE,
          err |-> Err("password must be at least 8 characters long", "input")]
    ELSE LET f == FindUserByEmailInDB(email, fault)
         IN  IF f.err # NilErr /\ ~ErrorsIs(f.err, ErrUserNotFound)
             THEN [next |-> "done", store |-> TRUE,
                   err |-> Wrap("could not verify user existence", f.err)]
             ELSE IF f.u # NilUser
             THEN [next |-> "done", store |-> TRUE,
                   err |-> Err("user already exists", "other")]
             ELSE [next |-> "reg_create", store |-> TRUE, err |-> NilErr]

\* lines 273-290: input validation, then the existence check.
\* [next, err, store]: next is "done" or "reg_create"; store tells whether
\* the lookup ran
RegisterUserCheck(email, password, fault) ==
    IF email = "" \/ password = ""
    THEN [next |-> "done", store |-> FALSE,
          err |-> Err("email and password are required", "input")]
    ELSE IF len(password) < MinPasswordLen
    THEN [next |-> "done", store |-> FALSE,
          err |-> Err("password must be at least 8 characters long", "input")]
    ELSE LET f == FindUserByEmailInDB(email, fault)
         IN  IF f.err # NilErr /\ ~ErrorsIs(f.err, ErrUserNotFound)
             THEN [next |-> "done", store |-> TRUE,
                   err |-> Wrap("could not verify user existence", f.err)]
             ELSE IF f.u # NilUser
             THEN [next |-> "done", store |-> TRUE, err |-> ErrUserAlreadyExists]
             ELSE [next |-> "reg_create", store |-> TRUE, err |-> NilErr]

RegisterUserLookup(p) ==
    /\ CanStart(p)
    /\ \E req \in Requests, fault \in StmtFaults :
        LET email == req.email
            password == req.password
            c == RegisterUserCheck(email, password, fault)
            started == [IdleCall EXCEPT !.op = "register", !.email = email,
                          !.password = password, !.faulted = (fault # "none"),
                          !.pre = IF UserByEmail(email) = {} THEN "unused" ELSE "in_use"]
        IN  /\ CanFault(fault)
            /\ c.store \/ fault = "none"
            /\ faults' = faults + Count(fault)
            /\ call' = [call EXCEPT ![p] =
                 IF c.next = "done"
                 THEN Done(started, Failed(c.err),
                           HandlerRegister(email, password, Failed(c.err)))
                 ELSE [started EXCEPT !.pc = c.next]]
    /\ ncalls' = ncalls + 1
    /\ UNCHANGED <<users, refreshTokens, now, minted, used, loggedIn,
                   ledger, aux>>

\* a variant that logs the new user in: it mints an access token and hands
\* out a refresh token
RegisterUserFinish_AutoLogin(email, password, fault) ==
    IF fault = "hash"
    THEN [res |-> Failed(Wrap("could not process password",
                              Err("failed to hash password", "bcrypt"))),
          users |-> users]
    ELSE LET c == CreateUserInDB(email, HashPassword(password), fault)
         IN  IF c.err # NilErr
             THEN [res |-> Failed(Wrap("could not register user", c.err)),
                   users |-> users]
             ELSE [res |-> Result(NilErr, c.u, GenerateAccessToken(c.u, now),
                                  <<"b64", 1>>, NilInfo),
                   users |-> c.users]

\* lines 292-308: hash the password, insert the row.
\* [res, users] for a hasher fault ("hash") or a backend fault
RegisterUserFinish(email, password, fault) ==
    IF fault = "hash"
    THEN [res |-> Failed(Wrap("could not process password",
                              Err("failed to hash password", "bcrypt"))),
          users |-> users]
    ELSE LET c == CreateUserInDB(email, HashPassword(password), fault)
         IN  IF c.err # NilErr
             THEN [res |-> Failed(Wrap("could not register user", c.err)),
                   users |-> users]
             ELSE [res |-> Result(NilErr, c.u, NoAccess, NoToken, NilInfo),
                   users |-> c.users]

RegisterUserCreate(p) ==
    /\ call[p].pc = "reg_create"
    /\ \E fault \in Faults \cup {"hash"} :
        LET c == call[p]
            r == RegisterUserFinish(c.email, c.password, fault)
        IN  /\ CanFault(fault)
            /\ faults' = faults + Count(fault)
            /\ users' = r.users
            /\ call' = [call EXCEPT ![p] =
                 Done([c EXCEPT !.faulted = (c.faulted \/ fault # "none"),
                                !.raced = (UserByEmail(c.email) # {})],
                      r.res, HandlerRegister(c.email, c.password, r.res))]
    /\ UNCHANGED <<refreshTokens, now, minted, ncalls, used,
                   loggedIn, ledger, aux>>

-----------------------------------------------------------------------------
(* LoginUser *)

\* a variant that lets the store's not-found error through
LoginUserCheck_LeakNotFound(email, password, fault) ==
    IF email = "" \/ password = ""
    THEN [next |-> "done", store |-> FALSE, u |-> NilUser,
          err |-> Err("email and password are required for login", "input")]
    ELSE LET f == FindUserByEmailInDB(email, fault)
         IN  IF f.err # NilErr
             THEN [next |-> "done", store |-> TRUE, u |-> NilUser,
                   err |-> Wrap("login attempt failed", f.err)]
             ELSE IF ~CheckPasswordHash(password, f.u.passwordHash)
             THEN [next |-> "done", store |-> TRUE, u |-> NilUser,
                   err |-> ErrInvalidCredentials]
             ELSE [next |-> "login_save", store |-> TRUE, u |-> f.u, err |-> NilErr]

\* lines 328-346: input validation, lookup, password check.
\* [next, err, u, store]
LoginUserCheck(email, password, fault) ==
    IF email = "" \/ password = ""
    THEN [next |-> "done", store |-> FALSE, u |-> NilUser,
          err |-> Err("email and password are required for login", "input")]
    ELSE LET f == FindUserByEmailInDB(email, fault)
         IN  IF f.err # NilErr
             THEN [next |-> "done", store |-> TRUE, u |-> NilUser,
                   err |-> IF ErrorsIs(f.err, ErrUserNotFound)
                           THEN ErrInvalidCredentials
                           ELSE Wrap("login attempt failed", f.err)]
             ELSE IF ~CheckPasswordHash(password, f.u.passwordHash)
             THEN [next |-> "done", store |-> TRUE, u |-> NilUser,
                   err |-> ErrInvalidCredentials]
             ELSE [next |-> "login_save", store |-> TRUE, u |-> f.u, err |-> NilErr]

\* how the users table stands to a login's credentials
Credentials(email, password) ==
    IF UserByEmail(email) = {} THEN "no_user"
    ELSE IF \E r \in UserByEmail(email) : r.passwordHash = HashPassword(password)
    THEN "registered"
    ELSE "bad_password"

\* the lookup, and for a verified user lines 348-359: the access token, the
\* opaque refresh token and its expiry, all from the clock as it is now
LoginUserLookup(p) ==
    /\ CanStart(p)
    /\ \E req \in Requests, fault \in StmtFaults :
        LET email == req.email
            password == req.password
            c == LoginUserCheck(email, password, fault)
            started == [IdleCall EXCEPT !.op = "login", !.email = email,
                          !.password = password, !.faulted = (fault # "none"),
                          !.pre = Credentials(email, password)]
        IN  /\ CanFault(fault)
            /\ c.store \/ fault = "none"
            /\ faults' = faults + Count(fault)
            /\ IF c.next = "done"
               THEN /\ call' = [call EXCEPT ![p] =
                          Done(started, Failed(c.err),
                               HandlerLogin(email, password, Failed(c.err)))]
                    /\ minted' = minted
               ELSE \E t \in generateOpaqueTokenString :
                    /\ call' = [call EXCEPT ![p] =
                          [started EXCEPT !.pc = c.next, !.u = c.u,
                              !.access = GenerateAccessToken(c.u, now),
                              !.newTok = t, !.expiresAt = now + RefreshTTL]]
                    /\ minted' = minted \cup {t}
    /\ ncalls' = ncalls + 1
    /\ UNCHANGED <<users, refreshTokens, now, used, loggedIn, ledger, aux>>

\* a variant that hands the store the opaque token instead of its hash
LoginUserFinish_SaveRaw(c, fault) ==
    LET s == SaveRefreshToken(c.u.id, c.newTok, c.expiresAt, fault)
    IN  IF s.err # NilErr
        THEN [res |-> Failed(Wrap("failed to save refresh token for login", s.err)),
              refreshTokens |-> refreshTokens]
        ELSE [res |-> Result(NilErr, NilUser, c.access, c.newTok,
                             ToUserInfoForResponse(c.u)),
              refreshTokens |-> s.refreshTokens]

\* a variant that ends the user's other sessions on login
LoginUserFinish_SingleSession(c, fault) ==
    LET s == SaveRefreshToken(c.u.id, hashToken(c.newTok), c.expiresAt, fault)
    IN  IF s.err # NilErr
        THEN [res |-> Failed(Wrap("failed to save refresh token for login", s.err)),
              refreshTokens |-> refreshTokens]
        ELSE [res |-> Result(NilErr, NilUser, c.access, c.newTok,
                             ToUserInfoForResponse(c.u)),
              refreshTokens |->
                 {r \in s.refreshTokens :
                     r.userID # c.u.id \/ r.tokenHash = hashToken(c.newTok)}]

\* a variant that returns the tokens together with the save's error
LoginUserFinish_TokensWithError(c, fault) ==
    LET s == SaveRefreshToken(c.u.id, hashToken(c.newTok), c.expiresAt, fault)
    IN  IF s.err # NilErr
        THEN [res |-> Result(Wrap("failed to save refresh token for login", s.err),
                             NilUser, c.access, c.newTok, NilInfo),
              refreshTokens |-> refreshTokens]
        ELSE [res |-> Result(NilErr, NilUser, c.access, c.newTok,
                             ToUserInfoForResponse(c.u)),
              refreshTokens |-> s.refreshTokens]

\* lines 361-374: persist the hash, answer
LoginUserFinish(c, fault) ==
    LET s == SaveRefreshToken(c.u.id, hashToken(c.newTok), c.expiresAt, fault)
    IN  IF s.err # NilErr
        THEN [res |-> Failed(Wrap("failed to save refresh token for login", s.err)),
              refreshTokens |-> refreshTokens]
        ELSE [res |-> Result(NilErr, NilUser, c.access, c.newTok,
                             ToUserInfoForResponse(c.u)),
              refreshTokens |-> s.refreshTokens]

LoginUserSave(p) ==
    /\ call[p].pc = "login_save"
    /\ \E fault \in StmtFaults :
        LET c == call[p]
            r == LoginUserFinish(c, fault)
        IN  /\ CanFault(fault)
            /\ faults' = faults + Count(fault)
            /\ refreshTokens' = r.refreshTokens
            /\ loggedIn' = IF r.res.err = NilErr THEN loggedIn \cup {c.u.id}
                           ELSE loggedIn
            /\ ledger' = IF r.res.err = NilErr
                         THEN Issue(c.u.id, c.newTok, c.newTok) ELSE ledger
            /\ call' = [q \in Procs |->
                 IF q = p
                 THEN Done([c EXCEPT !.faulted = (c.faulted \/ fault # "none")],
                           r.res, HandlerLogin(c.email, c.password, r.res))
                 ELSE IF r.res.err = NilErr /\ call[q].u.id = c.u.id
                 THEN [call[q] EXCEPT !.revoked = FALSE]
                 ELSE call[q]]
    /\ UNCHANGED <<users, now, minted, ncalls, used, aux>>

-----------------------------------------------------------------------------
(* ProcessRefreshToken *)

\* a variant that wraps the lookup's error instead of replacing it
ProcessRefreshTokenCheck_WrapLookupError(tok, fault) ==
    IF tok = EmptyString
    THEN [next |-> "done", store |-> FALSE, u |-> NilUser, err |-> ErrInvalidToken]
    ELSE LET v == ValidateAndFetchUserByTokenHash(hashToken(tok), fault)
         IN  IF v.err # NilErr
             THEN [next |-> "done", store |-> TRUE, u |-> NilUser,
                   err |-> Wrap("invalid refresh token", v.err)]
             ELSE [next |-> "ref_delete", store |-> TRUE, u |-> v.u, err |-> NilErr]

\* a variant that collapses only the store's not-found error
ProcessRefreshTokenCheck_PassStorageError(tok, fault) ==
    IF tok = EmptyString
    THEN [next |-> "done", store |-> FALSE, u |-> NilUser, err |-> ErrInvalidToken]
    ELSE LET v == ValidateAndFetchUserByTokenHash(hashToken(tok), fault)
         IN  IF v.err # NilErr
             THEN [next |-> "done", store |-> TRUE, u |-> NilUser,
                   err |-> IF ErrorsIs(v.err, ErrRefreshTokenNotFound)
                           THEN ErrInvalidToken
                           ELSE Wrap("could not validate refresh token", v.err)]
             ELSE [next |-> "ref_delete", store |-> TRUE, u |-> v.u, err |-> NilErr]

\* a variant that tells an expired token from an unknown one
ProcessRefreshTokenCheck_ReportExpiry(tok, fault) ==
    IF tok = EmptyString
    THEN [next |-> "done", store |-> FALSE, u |-> NilUser, err |-> ErrInvalidToken]
    ELSE LET v == ValidateAndFetchUserByTokenHash(hashToken(tok), fault)
         IN  IF v.err # NilErr
             THEN [next |-> "done", store |-> TRUE, u |-> NilUser,
                   err |-> IF RowsByHash(hashToken(tok)) # {}
                           THEN ErrTokenExpired ELSE ErrInvalidToken]
             ELSE [next |-> "ref_delete", store |-> TRUE, u |-> v.u, err |-> NilErr]

\* lines 400-414: the empty check, the hash, the validating lookup; every
\* lookup error collapses to ErrInvalidToken.  [next, err, u, store]
ProcessRefreshTokenCheck(tok, fault) ==
    IF tok = EmptyString
    THEN [next |-> "done", store |-> FALSE, u |-> NilUser, err |-> ErrInvalidToken]
    ELSE LET v == ValidateAndFetchUserByTokenHash(hashToken(tok), fault)
         IN  IF v.err # NilErr
             THEN [next |-> "done", store |-> TRUE, u |-> NilUser,
                   err |-> ErrInvalidToken]
             ELSE [next |-> "ref_delete", store |-> TRUE, u |-> v.u, err |-> NilErr]

\* a variant that logs the rejected token as it came
ProcessRefreshTokenCheckLog_WholeToken(tok, fault) ==
    IF tok = EmptyString THEN {}
    ELSE IF ValidateAndFetchUserByTokenHash(hashToken(tok), fault).err = NilErr
    THEN {}
    ELSE {tok}
         \cup (IF fault # "none" THEN {Shown(hashToken(tok))} ELSE {})

\* what the validating step logs: token_store.go line 72 (a lookup error
\* other than no rows: the hash, cut) and middleware.go line 412 (any
\* lookup error: the presented token, cut)
ProcessRefreshTokenCheckLog(tok, fault) ==
    IF tok = EmptyString THEN {}
    ELSE IF ValidateAndFetchUserByTokenHash(hashToken(tok), fault).err = NilErr
    THEN {}
    ELSE {Shown(tok)}
         \cup (IF fault # "none" THEN {Shown(hashToken(tok))} ELSE {})

ProcessRefreshTokenValidate(p) ==
    /\ CanStart(p)
    /\ \E tok \in PresentedTokens, fault \in StmtFaults :
        LET c == ProcessRefreshTokenCheck(tok, fault)
            started == [IdleCall EXCEPT !.op = "refresh", !.tok = tok,
                          !.logs = ProcessRefreshTokenCheckLog(tok, fault),
                          !.faulted = (fault # "none"), !.stale = (tok \in used),
                          !.pre = IF ValidRows(hashToken(tok)) # {}
                                  THEN "valid" ELSE "invalid"]
        IN  /\ CanFault(fault)
            /\ c.store \/ fault = "none"
            /\ faults' = faults + Count(fault)
            /\ call' = [call EXCEPT ![p] =
                 IF c.next = "done"
                 THEN Done(started, Failed(c.err),
                           HandlerRefreshToken(tok, Failed(c.err)))
                 ELSE [started EXCEPT !.pc = c.next, !.u = c.u]]
    /\ ncalls' = ncalls + 1
    /\ UNCHANGED <<users, refreshTokens, now, minted, used, loggedIn,
                   ledger, aux>>

\* a variant that returns the delete's error instead of going on
ProcessRefreshTokenRotate_Abort(tok, fault) ==
    LET d == DeleteRefreshTokenByHash(hashToken(tok), fault)
    IN  [next |-> IF d.err # NilErr THEN "done" ELSE "ref_save",
         err |-> IF d.err # NilErr
                 THEN Wrap("failed to delete old refresh token", d.err) ELSE NilErr,
         delErr |-> (d.err # NilErr), refreshTokens |-> d.refreshTokens]

\* lines 416-424: delete the old row; a failed delete is logged and the
\* rotation goes on.  [next, err, delErr, refreshTokens]
ProcessRefreshTokenRotate(tok, fault) ==
    LET d == DeleteRefreshTokenByHash(hashToken(tok), fault)
    IN  [next |-> "ref_save", err |-> NilErr, delErr |-> (d.err # NilErr),
         refreshTokens |-> d.refreshTokens]

\* what the delete logs: token_store.go lines 83 (the delete failed) and 87
\* (no row was deleted) and middleware.go line 422 (the delete failed) show
\* the hash, cut
ProcessRefreshTokenRotateLog(tok, fault) ==
    IF fault # "none" \/ RowsByHash(hashToken(tok)) = {}
    THEN {Shown(hashToken(tok))}
    ELSE {}

\* the delete, then lines 426-438: the new access token, the new opaque
\* token and its expiry
ProcessRefreshTokenDelete(p) ==
    /\ call[p].pc = "ref_delete"
    /\ \E fault \in StmtFaults :
        LET c == [call[p] EXCEPT !.faulted = (call[p].faulted \/ fault # "none"),
                     !.logs = call[p].logs
                                \cup ProcessRefreshTokenRotateLog(call[p].tok, fault)]
            d == ProcessRefreshTokenRotate(c.tok, fault)
        IN  /\ CanFault(fault)
            /\ faults' = faults + Count(fault)
            /\ refreshTokens' = d.refreshTokens
            /\ IF d.next = "done"
               THEN /\ call' = [call EXCEPT ![p] =
                          Done([c EXCEPT !.delErr = d.delErr], Failed(d.err),
                               HandlerRefreshToken(c.tok, Failed(d.err)))]
                    /\ minted' = minted
               ELSE \E t \in generateOpaqueTokenString :
                    /\ call' = [call EXCEPT ![p] =
                          [c EXCEPT !.pc = d.next, !.delErr = d.delErr,
                              !.access = GenerateAccessToken(c.u, now),
                              !.newTok = t, !.expiresAt = now + RefreshTTL]]
                    /\ minted' = minted \cup {t}
    /\ UNCHANGED <<users, now, ncalls, used, loggedIn, ledger, aux>>

\* a variant that treats a failed save as a soft error and answers anyway
ProcessRefreshTokenFinish_SoftSave(c, fault) ==
    LET s == SaveRefreshToken(c.u.id, hashToken(c.newTok), c.expiresAt, fault)
    IN  [res |-> Result(NilErr, NilUser, c.access, c.newTok, NilInfo),
         refreshTokens |-> s.refreshTokens]

\* a variant that puts the old row back when the save fails
ProcessRefreshTokenFinish_PutBack(c, fault) ==
    LET s == SaveRefreshToken(c.u.id, hashToken(c.newTok), c.expiresAt, fault)
    IN  IF s.err # NilErr
        THEN [res |-> Failed(Wrap("failed to save new refresh token", s.err)),
              refreshTokens |-> refreshTokens \cup
                  {[userID |-> c.u.id, tokenHash |-> hashToken(c.tok),
                    expiresAt |-> c.expiresAt]}]
        ELSE [res |-> Result(NilErr, NilUser, c.access, c.newTok, NilInfo),
              refreshTokens |-> s.refreshTokens]

\* lines 440-453: persist the new hash; a failed save fails the call
ProcessRefreshTokenFinish(c, fault) ==
    LET s == SaveRefreshToken(c.u.id, hashToken(c.newTok), c.expiresAt, fault)
    IN  IF s.err # NilErr
        THEN [res |-> Failed(Wrap("failed to save new refresh token", s.err)),
              refreshTokens |-> refreshTokens]
        ELSE [res |-> Result(NilErr, NilUser, c.access, c.newTok, NilInfo),
              refreshTokens |-> s.refreshTokens]

ProcessRefreshTokenSave(p) ==
    /\ call[p].pc = "ref_save"
    /\ \E fault \in StmtFaults :
        LET c == call[p]
            r == ProcessRefreshTokenFinish(c, fault)
        IN  /\ CanFault(fault)
            /\ faults' = faults + Count(fault)
            /\ refreshTokens' = r.refreshTokens
            /\ used' = IF r.res.err = NilErr THEN used \cup {c.tok} ELSE used
            /\ ledger' = IF r.res.err = NilErr
                         THEN Issue(c.u.id, c.newTok, LoginOf(c.tok)) ELSE ledger
            /\ call' = [call EXCEPT ![p] =
                 Done([c EXCEPT !.faulted = (c.faulted \/ fault # "none")],
                      r.res, HandlerRefreshToken(c.tok, r.res))]
    /\ UNCHANGED <<users, now, minted, ncalls, loggedIn, aux>>

-----------------------------------------------------------------------------
(* Logout *)

\* POST /api/auth/logout: the handler alone, which calls neither the service
\* nor a store
Logout(p) ==
    /\ CanStart(p)
    /\ \E sent \in BOOLEAN, tok \in PresentedTokens :
        LET started == [IdleCall EXCEPT !.op = "logout", !.tok = tok,
                          !.pre = IF ~sent THEN "no_cookie"
                                  ELSE IF ValidRows(hashToken(tok)) # {}
                                  THEN "valid" ELSE "invalid"]
        IN  /\ sent \/ tok = EmptyString
            /\ call' = [call EXCEPT ![p] = Done(started, NoRes, HandlerLogout(sent))]
    /\ ncalls' = ncalls + 1
    /\ UNCHANGED <<users, refreshTokens, now, minted, faults, used,
                   loggedIn, ledger, aux>>

-----------------------------------------------------------------------------
(* Token store maintenance: the two operations no HTTP route calls. *)
(* A faulted call changes nothing the model holds, and is not counted. *)

RevokeUser ==
    /\ \E u \in users, fault \in StmtFaults :
        /\ refreshTokens' = DeleteUserRefreshTokens(u.id, fault).refreshTokens
        /\ ledger' = Remove(refreshTokens
                              \ DeleteUserRefreshTokens(u.id, fault).refreshTokens)
        /\ call' = [p \in Procs |->
                      IF /\ fault = "none"
                         /\ InFlight(p) /\ call[p].op = "refresh"
                         /\ call[p].u.id = u.id
                      THEN [call[p] EXCEPT !.revoked = TRUE]
                      ELSE call[p]]
    /\ UNCHANGED <<users, now, minted, faults, ncalls, used, loggedIn, aux>>

PurgeExpired ==
    /\ \E fault \in StmtFaults :
        /\ refreshTokens' = DeleteExpiredTokens(fault).refreshTokens
        /\ ledger' = Remove(refreshTokens \ DeleteExpiredTokens(fault).refreshTokens)
    /\ UNCHANGED <<users, now, minted, faults, ncalls, used, call, loggedIn, aux>>

-----------------------------------------------------------------------------

Next ==
    \/ Tick
    \/ \E p \in Procs : RegisterUserLookup(p)
    \/ \E p \in Procs : RegisterUserCreate(p)
    \/ \E p \in Procs : LoginUserLookup(p)
    \/ \E p \in Procs : LoginUserSave(p)
    \/ \E p \in Procs : ProcessRefreshTokenValidate(p)
    \/ \E p \in Procs : ProcessRefreshTokenDelete(p)
    \/ \E p \in Procs : ProcessRefreshTokenSave(p)
    \/ \E p \in Procs : Logout(p)
    \/ RevokeUser
    \/ PurgeExpired

Spec == Init /\ [][Next]_vars

-----------------------------------------------------------------------------
(* Properties of refresh-token rotation *)

Finished(p, op) == call[p].op = op /\ call[p].pc = "done"
Succeeded(p) == call[p].res.err = NilErr

\* C1: rotation is single-use in sequence.  A ProcessRefreshToken that
\* presents a valid token and meets no fault succeeds, and every call that
\* starts after a successful rotation consumed its token fails with
\* ErrInvalidToken.
C1_SingleUseInSequence ==
    \A p \in Procs : Finished(p, "refresh") =>
        /\ (call[p].pre = "valid" /\ ~call[p].faulted) => Succeeded(p)
        /\ call[p].stale => call[p].res.err = ErrInvalidToken

\* C2: rotation is single-use under concurrency.  Of two calls in flight
\* together that present the same valid token (neither started after the
\* other had consumed it) at most one succeeds, whatever the interleaving of
\* their validate, delete and save statements; stated for calls that meet no
\* fault.
C2_SingleUseConcurrent ==
    \A p, q \in Procs :
        (/\ p # q
         /\ Finished(p, "refresh") /\ Finished(q, "refresh")
         /\ call[p].tok = call[q].tok
         /\ ~call[p].stale /\ ~call[q].stale
         /\ ~call[p].faulted /\ ~call[q].faulted)
        => ~(Succeeded(p) /\ Succeeded(q))

\* C3: a refresh token that a successful ProcessRefreshToken consumed is
\* unusable from then on, also when the delete of that call failed: in every
\* later state the first step of ProcessRefreshToken rejects it with
\* ErrInvalidToken.
C3_UsedTokenUnusable ==
    \A t \in used : ProcessRefreshTokenCheck(t, "none").err = ErrInvalidToken

\* C4: when ProcessRefreshToken(T) returns successfully with T', then at
\* that instant T' differs from T, the hash of T' resolves to an unexpired
\* row, and the hash of T resolves to no row.
C4_RotationPostcondition ==
    [][\A p \in Procs :
         (call[p].pc = "ref_save" /\ call'[p].pc = "done" /\ call'[p].res.err = NilErr)
         => /\ call'[p].res.refresh # call[p].tok
            /\ \E rt \in refreshTokens' :
                  /\ rt.tokenHash = hashToken(call'[p].res.refresh)
                  /\ rt.expiresAt > now'
                  /\ \E u \in users' : u.id = rt.userID
            /\ \A rt \in refreshTokens' :
                  rt.tokenHash # hashToken(call[p].tok)]_vars

\* the save statement of handler p's ProcessRefreshToken runs in this step
SaveStep(p) == call[p].pc = "ref_save" /\ call'[p].pc = "done"

\* C5: ProcessRefreshToken returns credentials only when the new token's
\* hash has been persisted: a successful return leaves the new hash stored,
\* and when the save failed (no row for the new hash) the call returns an
\* error that is not ErrInvalidToken, no access token and no refresh token.
C5_FailedSaveIsFatal ==
    [][\A p \in Procs : SaveStep(p) =>
         LET stored == \E rt \in refreshTokens' :
                          rt.tokenHash = hashToken(call[p].newTok)
             res == call'[p].res
         IN  /\ res.err = NilErr => stored
             /\ ~stored => /\ res.err # NilErr
                           /\ ~ErrorsIs(res.err, ErrInvalidToken)
                           /\ res.access = NoAccess
                           /\ res.refresh = NoToken]_vars

C5_Witness ==
    \E p \in Procs :
        /\ Finished(p, "refresh")
        /\ call[p].newTok # NoToken
        /\ call[p].res.err.msg = "failed to save new refresh token"
        /\ RowsByHash(hashToken(call[p].newTok)) = {}

\* C6: a failed delete of the old row does not abort the rotation: a call
\* whose delete returned an error has minted its new tokens and goes on to
\* the save, and when the save meets no fault the call persists the new hash
\* and returns the new access token and the new refresh token.
C6_FailedDeleteNotFatal ==
    /\ [](\A p \in Procs : (call[p].op = "refresh" /\ call[p].delErr) =>
            /\ call[p].pc \in {"ref_save", "done"}
            /\ call[p].newTok # NoToken
            /\ call[p].access = GenerateAccessToken(call[p].u, call[p].access.iat))
    /\ [][\A p \in Procs : (SaveStep(p) /\ call[p].delErr /\ faults' = faults) =>
            /\ call'[p].res.err = NilErr
            /\ call'[p].res.access = call[p].access
            /\ call'[p].res.refresh = call[p].newTok
            /\ \E rt \in refreshTokens' :
                  rt.tokenHash = hashToken(call[p].newTok)]_vars

C6_Witness ==
    \E p \in Procs :
        /\ Finished(p, "refresh")
        /\ call[p].delErr
        /\ Succeeded(p)
        /\ call[p].res.refresh = call[p].newTok
        /\ RowsByHash(hashToken(call[p].newTok)) # {}

-----------------------------------------------------------------------------
(* Properties of registration and login *)

\* the two ways a login's credentials can be wrong
Rejected(p) ==
    /\ Finished(p, "login")
    /\ ~call[p].faulted
    /\ call[p].email # "" /\ call[p].password # ""
    /\ call[p].pre \in {"no_user", "bad_password"}

\* C7: LoginUser with an unknown email and LoginUser with a known email and
\* a wrong password return the same error, ErrInvalidCredentials, and the
\* Login handler answers both with the same status and body; no two such
\* calls differ in what they return or in what is written.
C7_LoginFailuresIndistinguishable ==
    \A p, q \in Procs : (Rejected(p) /\ Rejected(q)) =>
        /\ call[p].res.err = ErrInvalidCredentials
        /\ call[p].http = RespondWithError(401, "Invalid email or password")
        /\ call[p].res = call[q].res
        /\ call[p].http = call[q].http

C7_Witness ==
    \E p, q \in Procs :
        /\ Rejected(p) /\ call[p].pre = "no_user"
        /\ Rejected(q) /\ call[q].pre = "bad_password"

\* a finished RegisterUser for an email no row had, that met no fault and no
\* concurrent registration of the same email, with a password of 8 or more
FreshRegistration(p) ==
    /\ Finished(p, "register")
    /\ call[p].pre = "unused"
    /\ ~call[p].raced
    /\ ~call[p].faulted
    /\ Len(call[p].password) >= MinPasswordLen

\* the email passes the validation and fits the users.email column
StorableEmail(email) == email # "" /\ Len(email) <= VarcharLen

\* RegisterUser of p returned the created user, whose row holds the digest
\* of the password, so that the credentials now count as registered
Registered(p) ==
    /\ Succeeded(p)
    /\ call[p].res.user \in users
    /\ call[p].res.user.email = call[p].email
    /\ CheckPasswordHash(call[p].password, call[p].res.user.passwordHash)
    /\ call[p].http.status = 201
    /\ Credentials(call[p].email, call[p].password) = "registered"

\* LoginUser of p returned an access token for the user, a refresh token
\* and the user's id and email
LoggedIn(p) ==
    /\ Succeeded(p)
    /\ \E u \in UserByEmail(call[p].email) :
          /\ call[p].res.access.uid = u.id
          /\ call[p].res.access.email = u.email
          /\ call[p].res.info = [id |-> u.id, email |-> u.email]
    /\ call[p].res.refresh \in minted
    /\ call[p].http.status = 200

\* a finished LoginUser that met no fault, with the credentials of a stored row
LoginOfRegistered(p) ==
    /\ Finished(p, "login")
    /\ ~call[p].faulted
    /\ call[p].pre = "registered"

DuplicateRegistration(p) ==
    /\ Finished(p, "register")
    /\ call[p].pre = "in_use"
    /\ ~call[p].faulted

\* C9 (as amended): RegisterUser with an email that already belongs to a
\* stored user fails with ErrUserAlreadyExists (status 409) for every
\* password of at least 8 bytes; for an empty or shorter password it fails
\* with the input-validation error (status 400) before the email is looked up.
C9_DuplicateEmailRejected ==
    \A p \in Procs : DuplicateRegistration(p) =>
        IF len(call[p].password) >= MinPasswordLen
        THEN /\ call[p].res.err = ErrUserAlreadyExists
             /\ call[p].http = RespondWithError(409, "User with this email already exists")
        ELSE /\ call[p].res.err.is = "input"
             /\ call[p].http.status = 400

C9_Witness ==
    \E p \in Procs :
        /\ DuplicateRegistration(p)
        /\ Len(call[p].password) >= MinPasswordLen
        /\ call[p].res.err = ErrUserAlreadyExists

\* C9 (as stated): RegisterUser with an email that already belongs to a
\* stored user always fails with ErrUserAlreadyExists, for every password.
C9_Original ==
    \A p \in Procs : DuplicateRegistration(p) =>
        ErrorsIs(call[p].res.err, ErrUserAlreadyExists)

\* two finished RegisterUser calls for one email that no row had when either
\* looked it up, neither meeting a fault
ConcurrentRegistrations(p, q) ==
    /\ p # q
    /\ Finished(p, "register") /\ Finished(q, "register")
    /\ call[p].email = call[q].email
    /\ call[p].pre = "unused" /\ call[q].pre = "unused"
    /\ Len(call[p].password) >= MinPasswordLen
    /\ Len(call[q].password) >= MinPasswordLen
    /\ StorableEmail(call[p].email)
    /\ ~call[p].faulted /\ ~call[q].faulted

\* C10: in every reachable state at most one user row exists per email; no
\* step changes or removes a stored row, so a registration for an existing
\* email never overwrites it; and of two concurrent RegisterUser calls for
\* the same unused email exactly one creates the user and the other fails
\* with ErrUserAlreadyExists (status 409).
C10_EmailUnique ==
    /\ [](\A r1, r2 \in users : r1.email = r2.email => r1 = r2)
    /\ [][users \subseteq users']_vars
    /\ [][\A p \in Procs :
            (call'[p].op = "register" /\ call'[p].pc = "done" /\ call[p].pc # "done"
             /\ UserByEmail(call'[p].email) # {}) => users' = users]_vars
    /\ [](\A p, q \in Procs : ConcurrentRegistrations(p, q) =>
            \/ /\ Registered(p) /\ call[q].raced
               /\ ErrorsIs(call[q].res.err, ErrUserAlreadyExists)
               /\ call[q].http.status = 409
            \/ /\ Registered(q) /\ call[p].raced
               /\ ErrorsIs(call[p].res.err, ErrUserAlreadyExists)
               /\ call[p].http.status = 409)

C10_Witness ==
    \E p, q \in Procs :
        /\ ConcurrentRegistrations(p, q)
        /\ Registered(p)
        /\ call[q].raced
        /\ ErrorsIs(call[q].res.err, ErrUserAlreadyExists)
        /\ Cardinality(UserByEmail(call[p].email)) = 1

-----------------------------------------------------------------------------
(* Properties of what is stored and what is sent *)

\* C11: in every reachable state every refresh_tokens row holds, as its
\* token_hash, the SHA-256 hash of an opaque token that LoginUser or
\* ProcessRefreshToken minted, and no row holds the raw string of any
\* minted token.
C11_OnlyHashesStored ==
    \A rt \in refreshTokens :
        /\ DOMAIN rt = {"userID", "tokenHash", "expiresAt"}
        /\ \E t \in minted : rt.tokenHash = hashToken(t)
        /\ \A t \in minted : rt.tokenHash # t

C11_Witness ==
    \E p, q \in Procs :
        /\ Finished(p, "login") /\ Succeeded(p)
        /\ Finished(q, "refresh") /\ Succeeded(q)
        /\ call[p].res.refresh # call[q].tok
        /\ RowsByHash(hashToken(call[p].res.refresh)) # {}
        /\ RowsByHash(hashToken(call[q].res.refresh)) # {}

\* the fields of the user projection, and of an access token's claims
InfoFields == {"id", "email"}
ClaimFields == {"uid", "email", "exp", "iat", "nbf", "iss", "sub", "alg", "key"}

\* C12: the stored password digest never appears in an outward-facing
\* result: what LoginUser returns and what the Login and Register handlers
\* write carry, of the user, only the id and the email (and the access
\* token's claims hold no digest either); for a call that met no fault they
\* are the id and email of the stored row.
C12_NoDigestSent ==
    \A p \in Procs : (call[p].pc = "done" /\ call[p].op \in {"register", "login"}) =>
        /\ DOMAIN call[p].http.user = InfoFields
        /\ DOMAIN call[p].res.info = InfoFields
        /\ DOMAIN call[p].http.accessToken = ClaimFields
        /\ (Succeeded(p) /\ ~call[p].faulted) =>
              \E u \in UserByEmail(call[p].email) :
                  /\ u.passwordHash = HashPassword(call[p].password)
                  /\ call[p].http.user = [id |-> u.id, email |-> u.email]

C12_Witness ==
    \E p, q \in Procs :
        /\ Finished(p, "register") /\ Succeeded(p) /\ call[p].http.status = 201
        /\ Finished(q, "login") /\ Succeeded(q) /\ call[q].http.status = 200
        /\ call[p].http.user = call[q].http.user
        /\ call[p].res.user.passwordHash = HashPassword(call[p].password)

-----------------------------------------------------------------------------
(* Properties of what registration leaves alone *)

\* handler p's RegisterUser takes a step
RegisterStep(p) == call'[p].op = "register" /\ call'[p] # call[p]

\* C24: RegisterUser issues no tokens: no step of a RegisterUser call,
\* successful or failing, changes the refresh_tokens table or mints an
\* opaque token; a finished call has returned no access token and no
\* refresh token, and the Register handler has written none and set no
\* cookie; and every refresh-token row belongs to a user a LoginUser has
\* succeeded for, so a newly registered user has none until then.
C24_RegisterIssuesNoTokens ==
    /\ [][\A p \in Procs : RegisterStep(p) =>
            /\ refreshTokens' = refreshTokens
            /\ minted' = minted]_vars
    /\ [](\A p \in Procs : Finished(p, "register") =>
            /\ call[p].res.access = NoAccess
            /\ call[p].res.refresh = NoToken
            /\ call[p].http.accessToken = NoAccess
            /\ call[p].http.cookie = NoCookie
            /\ call[p].newTok = NoToken)
    /\ [](\A rt \in refreshTokens : rt.userID \in loggedIn)

C24_Witness ==
    \E p \in Procs :
        /\ FreshRegistration(p) /\ Registered(p)
        /\ call[p].res.user.id \notin loggedIn
        /\ \A rt \in refreshTokens : rt.userID # call[p].res.user.id
        /\ \E rt \in refreshTokens : rt.expiresAt > now

\* the input RegisterUser is to reject: an empty email, an empty password
\* or a password of fewer than 8 characters
InvalidInput(email, password) ==
    email = "" \/ password = "" \/ Len(password) < MinPasswordLen

\* C25: RegisterUser rejects an empty email, an empty password and every
\* password shorter than 8 characters with an input-validation error before
\* any store access: the call ends in its first step, no statement is sent
\* to the store (so none can fault), no user row is created and both tables
\* are unchanged; and the Register handler answers with status 400.
C25_InvalidInputRejected ==
    /\ [](\A p \in Procs :
            (Finished(p, "register") /\ InvalidInput(call[p].email, call[p].password))
            => /\ call[p].res.err.is = "input"
               /\ call[p].res.user = NilUser
               /\ ~call[p].faulted
               /\ call[p].http.status = 400
               /\ call[p].http.user = NilInfo)
    /\ [][\A p \in Procs :
            (RegisterStep(p) /\ InvalidInput(call'[p].email, call'[p].password))
            => /\ call'[p].pc = "done"
               /\ users' = users
               /\ refreshTokens' = refreshTokens
               /\ faults' = faults]_vars

-----------------------------------------------------------------------------
(* Properties of a rejected refresh *)

\* handler p's ProcessRefreshToken takes its first step: the empty check and
\* the validating lookup
ValidateStep(p) ==
    /\ ncalls' = ncalls + 1
    /\ call'[p].op = "refresh"
    /\ call'[p] # call[p]

\* a finished ProcessRefreshToken that ended at its validating step
EndedAtValidate(p) ==
    Finished(p, "refresh") /\ call[p].u = NilUser

\* C26: ProcessRefreshToken fails with ErrInvalidToken for an empty token
\* and for every failure of the validate-and-fetch step (a hash no row has,
\* an expired row, or a lookup that the backend fails): the call ends in
\* that step, which deletes nothing, saves nothing and mints nothing, and it
\* returns no access token and no refresh token; the handler answers 401
\* and sets no cookie.
C26_RejectedRefreshTouchesNothing ==
    /\ [][\A p \in Procs : ValidateStep(p) =>
            LET c == call'[p]
            IN  /\ (c.tok = EmptyString \/ c.pre = "invalid" \/ c.faulted)
                      => c.pc = "done"
                /\ c.pc = "done" =>
                      /\ c.res.err = ErrInvalidToken
                      /\ refreshTokens' = refreshTokens
                      /\ users' = users
                      /\ minted' = minted
                      /\ used' = used]_vars
    /\ [](\A p \in Procs : EndedAtValidate(p) =>
            /\ call[p].res = Failed(ErrInvalidToken)
            /\ call[p].newTok = NoToken
            /\ call[p].access = NoAccess
            /\ call[p].http.status = 401
            /\ call[p].http.accessToken = NoAccess
            /\ call[p].http.cookie = NoCookie)

C26_Witness ==
    \E p, q \in Procs :
        /\ EndedAtValidate(p)
        /\ call[p].pre = "valid" /\ call[p].faulted
        /\ call[p].res.err = ErrInvalidToken
        /\ RowsByHash(hashToken(call[p].tok)) # {}
        /\ EndedAtValidate(q)
        /\ call[q].pre = "invalid" /\ ~call[q].faulted
        /\ \E rt \in RowsByHash(hashToken(call[q].tok)) : rt.expiresAt <= now

\* handler q's ProcessRefreshToken succeeded with the refresh token that
\* handler p's LoginUser returned
LoginThenRefresh(p, q) ==
    /\ Finished(p, "login") /\ Succeeded(p)
    /\ Finished(q, "refresh") /\ Succeeded(q)
    /\ call[q].tok = call[p].res.refresh

\* C27: in the sequence login then refresh, the access token returned by
\* ProcessRefreshToken differs from the access token returned by the
\* preceding LoginUser for the same user, at whatever time the refresh is
\* performed.
C27_NewAccessTokenDiffers ==
    \A p, q \in Procs : LoginThenRefresh(p, q) =>
        /\ call[q].res.access.uid = call[p].res.access.uid
        /\ call[q].res.access # call[p].res.access
        /\ call[q].http.accessToken # call[p].http.accessToken

-----------------------------------------------------------------------------
(* Properties of the raw refresh token *)

\* handler p's call mints its opaque token in this step
MintStep(p) == call'[p].newTok # NoToken /\ call[p].newTok # call'[p].newTok

\* each opaque token is minted once, by one call, and a call returns no
\* refresh token but the one it minted
ReturnedByMinterOnly ==
    /\ [][\A p \in Procs : MintStep(p) =>
            /\ call'[p].newTok \notin minted
            /\ call'[p].newTok \in minted'
            /\ \A q \in Procs \ {p} : call'[q].newTok # call'[p].newTok]_vars
    /\ [](\A p \in Procs : call[p].pc = "done" =>
            /\ call[p].res.refresh \in {NoToken, call[p].newTok}
            /\ Succeeded(p) <=> call[p].res.err = NilErr)

\* C28 (as amended): a raw refresh-token value is returned to the caller at
\* most once, by the LoginUser or ProcessRefreshToken call that minted it:
\* exactly once when that call succeeds, and never when its save fails.  No
\* log entry of the service or the token store holds the complete value of
\* a minted refresh token or of its hash, nor of a presented string longer
\* than 10 characters: a rejected string is logged cut to its first 10
\* characters, which is the whole of a string of at most 10.
C28_RawTokenReturnedOnceNotLogged ==
    /\ ReturnedByMinterOnly
    /\ [](\A p \in Procs :
            (call[p].pc = "done" /\ call[p].newTok # NoToken) =>
                IF Succeeded(p)
                THEN call[p].res.refresh = call[p].newTok
                ELSE /\ call[p].res.refresh = NoToken
                     /\ call[p].http.cookie = NoCookie)
    /\ [](\A p \in Procs : \A l \in call[p].logs :
            /\ \A t \in minted : l # t /\ l # hashToken(t)
            /\ \A t \in PresentedTokens : l = t => TokenLen(t) <= LogPrefix)

C28_Witness ==
    \E p, q \in Procs :
        /\ Finished(p, "refresh")
        /\ call[p].tok \in minted
        /\ call[p].logs = {Shown(call[p].tok)}
        /\ call[p].tok \notin call[p].logs
        /\ Finished(q, "login")
        /\ call[q].newTok # NoToken
        /\ ~Succeeded(q)
        /\ call[q].res.refresh = NoToken

\* C28 (as stated): a raw refresh-token value is returned to the caller
\* exactly once, by the LoginUser or ProcessRefreshToken call that minted
\* it, and no log entry written by the service or the token store contains
\* the complete raw value of a refresh token presented to or minted by the
\* service.
C28_Original ==
    /\ ReturnedByMinterOnly
    /\ [](\A p \in Procs :
            (call[p].pc = "done" /\ call[p].newTok # NoToken) =>
                call[p].res.refresh = call[p].newTok)
    /\ [](\A p \in Procs : \A l \in call[p].logs :
            \A t \in minted \cup PresentedTokens : l # t)

-----------------------------------------------------------------------------
(* Properties of logout *)

\* C23: a refresh-token record is deleted on explicit logout: once the
\* Logout operation has completed for a session whose cookie holds refresh
\* token T, no row holds the hash of T, and ProcessRefreshToken(T) is
\* rejected with ErrInvalidToken by its validating step.
C23_LogoutDeletesRecord ==
    \A p \in Procs : (Finished(p, "logout") /\ call[p].pre = "valid") =>
        /\ RowsByHash(hashToken(call[p].tok)) = {}
        /\ ProcessRefreshTokenCheck(call[p].tok, "none").err = ErrInvalidToken

-----------------------------------------------------------------------------
(* Properties of the service boundary *)

\* err is or wraps one of the stores' not-found errors
InternalKind(err) ==
    ErrorsIs(err, ErrUserNotFound) \/ ErrorsIs(err, ErrRefreshTokenNotFound)

\* C16: ErrUserNotFound and ErrRefreshTokenNotFound never cross the service
\* boundary: no RegisterUser, LoginUser or ProcessRefreshToken call returns
\* an error that is or wraps either of them.  A login for an email no row
\* has returns ErrInvalidCredentials, a refresh with a token no unexpired
\* row has returns ErrInvalidToken, and a registration of an unused email
\* does not fail with the lookup's not-found error.
C16_InternalKindsStayInside ==
    \A p \in Procs : call[p].pc = "done" =>
        /\ ~InternalKind(call[p].res.err)
        /\ (call[p].op = "login" /\ call[p].pre = "no_user" /\ ~call[p].faulted
            /\ call[p].email # "" /\ call[p].password # "")
              => call[p].res.err = ErrInvalidCredentials
        /\ (call[p].op = "refresh" /\ call[p].pre = "invalid")
              => call[p].res.err = ErrInvalidToken
        /\ (FreshRegistration(p) /\ StorableEmail(call[p].email))
              => Succeeded(p)

C16_Witness ==
    \E p, q \in Procs :
        /\ Finished(p, "login") /\ call[p].pre = "no_user"
        /\ call[p].email # "" /\ call[p].password # ""
        /\ call[p].res.err = ErrInvalidCredentials
        /\ Finished(q, "refresh") /\ call[q].pre = "invalid"
        /\ call[q].tok # EmptyString /\ ~call[q].faulted
        /\ call[q].res.err = ErrInvalidToken

-----------------------------------------------------------------------------
(* Access tokens at the Authenticate middleware.                           *)
(* A client holds an access token that GenerateAccessToken made at some    *)
(* clock reading (this instance's or another's, whose clock may be ahead), *)
(* and sends requests while time passes; the clock is read below the       *)
(* second here.                                                            *)

\* the clock's readings <<second, below>>
Instants == (0..MaxTime) \X (0..(SubSteps - 1))

\* reading a is earlier than reading b
Earlier(a, b) == a[1] < b[1] \/ (a[1] = b[1] /\ a[2] < b[2])

\* reading a, d seconds later
Plus(a, d) == <<a[1] + d, a[2]>>

InitAuth ==
    /\ users \in {s \in StoredUsers : s # {}}
    /\ refreshTokens = {}
    /\ now \in 0..MaxTime
    /\ subsec \in 0..(SubSteps - 1)
    /\ minted = {}
    /\ faults = 0
    /\ ncalls = 0
    /\ used = {}
    /\ loggedIn = {r.userID : r \in refreshTokens}
    /\ ledger = NoLedger
    /\ call = [p \in Procs |-> IdleCall]
    /\ storeCall = NoStoreCall
    /\ proc = Started(DefaultEnv)
    /\ \E u \in users, m \in Instants :
          request = [NoRequest EXCEPT !.tok = GenerateAccessToken(u, m[1]),
                                      !.mintedAt = m]

\* time passes: the clock's next reading
Elapse ==
    /\ IF subsec < SubSteps - 1
       THEN subsec' = subsec + 1 /\ now' = now
       ELSE now < MaxTime /\ subsec' = 0 /\ now' = now + 1
    /\ UNCHANGED <<users, refreshTokens, minted, faults, ncalls, used, loggedIn, ledger,
                   call, storeCall, request, proc>>

\* a login now: the client gets a new access token
IssueAccessToken ==
    /\ \E u \in users :
          request' = [NoRequest EXCEPT !.tok = GenerateAccessToken(u, now),
                                       !.mintedAt = <<now, subsec>>]
    /\ UNCHANGED <<users, refreshTokens, now, subsec, minted, faults, ncalls,
                   used, loggedIn, ledger, call, storeCall, proc>>

\* a request to a protected route passes through the middleware
ServeProtected ==
    /\ \E header \in Headers(request.tok) :
          request' = [request EXCEPT !.pc = "served", !.header = header,
                                     !.at = <<now, subsec>>,
                                     !.outcome = Authenticate(header, now)]
    /\ UNCHANGED <<users, refreshTokens, now, subsec, minted, faults, ncalls,
                   used, loggedIn, ledger, call, storeCall, proc>>

NextAuth == Elapse \/ IssueAccessToken \/ ServeProtected

SpecAuth == InitAuth /\ [][NextAuth]_vars

-----------------------------------------------------------------------------
(* The stores called directly.                                             *)
(* The tables start in any state the service can have left them in: the    *)
(* users registered so far, and for each opaque token minted so far either *)
(* no row or one row of one of the users; then UserStore and TokenStore    *)
(* methods are called one at a time, each as one statement.                *)

\* the second user an earlier RegisterUser("b@x.io", ...) created
SecondUser == [id |-> 2, email |-> "b@x.io", passwordHash |-> HashPassword("password123")]

\* the token hashes a caller can pass
TokenHashes == {hashToken(<<"b64", i>>) : i \in 1..MaxRows}

\* the refresh_tokens rows the users' logins and rotations can have left
TokenRows(us) ==
    [userID : {u.id : u \in us}, tokenHash : TokenHashes, expiresAt : 0..(MaxTime + 1)]

InitStore ==
    /\ users \in StoredUsers \cup {s \cup {SecondUser} : s \in StoredUsers \ {{}}}
    /\ refreshTokens \in {rows \in SUBSET TokenRows(users) :
                            \A r1, r2 \in rows : r1.tokenHash = r2.tokenHash => r1 = r2}
    /\ now \in 0..MaxTime
    /\ subsec = 0
    /\ minted = {<<"b64", i>> : i \in 1..MaxRows}
    /\ faults = 0
    /\ ncalls = 0
    /\ used = {}
    /\ loggedIn = {r.userID : r \in refreshTokens}
    /\ ledger = NoLedger
    /\ call = [p \in Procs |-> IdleCall]
    /\ storeCall = NoStoreCall
    /\ request = NoRequest
    /\ proc = Started(DefaultEnv)

\* a call on a store begins: the tables and the clock as it finds them
StoreCall(op, fault) ==
    [NoStoreCall EXCEPT !.op = op, !.fault = fault,
                        !.users0 = users, !.tokens0 = refreshTokens, !.now0 = now]

StoreFrame ==
    UNCHANGED <<minted, faults, ncalls, used, loggedIn, ledger, call, request, subsec, proc>>

StoreTick ==
    /\ now < MaxTime
    /\ now' = now + 1
    /\ UNCHANGED <<users, refreshTokens, storeCall>>
    /\ StoreFrame

CallCreateUserInDB ==
    /\ \E email \in Emails \ {""}, fault \in Faults :
        LET c == CreateUserInDB(email, HashPassword("password123"), fault)
        IN  /\ users' = c.users
            /\ storeCall' = [StoreCall("create", fault) EXCEPT
                                !.email = email, !.err = c.err, !.u = c.u]
    /\ UNCHANGED <<refreshTokens, now>>
    /\ StoreFrame

CallSaveRefreshToken ==
    /\ \E u \in users, h \in TokenHashes, fault \in Faults :
        LET s == SaveRefreshToken(u.id, h, now + RefreshTTL, fault)
        IN  /\ refreshTokens' = s.refreshTokens
            /\ storeCall' = [StoreCall("save", fault) EXCEPT
                                !.userID = u.id, !.hash = h,
                                !.expiresAt = now + RefreshTTL, !.err = s.err]
    /\ UNCHANGED <<users, now>>
    /\ StoreFrame

CallValidateAndFetchUserByTokenHash ==
    /\ \E h \in TokenHashes, fault \in StmtFaults :
        LET v == ValidateAndFetchUserByTokenHash(h, fault)
        IN  storeCall' = [StoreCall("validate", fault) EXCEPT
                             !.hash = h, !.err = v.err, !.u = v.u]
    /\ UNCHANGED <<users, refreshTokens, now>>
    /\ StoreFrame

CallDeleteRefreshTokenByHash ==
    /\ \E h \in TokenHashes, fault \in StmtFaults :
        LET d == DeleteRefreshTokenByHash(h, fault)
        IN  /\ refreshTokens' = d.refreshTokens
            /\ storeCall' = [StoreCall("delete", fault) EXCEPT
                                !.hash = h, !.err = d.err]
    /\ UNCHANGED <<users, now>>
    /\ StoreFrame

CallDeleteUserRefreshTokens ==
    /\ \E u \in users, fault \in StmtFaults :
        LET d == DeleteUserRefreshTokens(u.id, fault)
        IN  /\ refreshTokens' = d.refreshTokens
            /\ storeCall' = [StoreCall("revoke", fault) EXCEPT
                                !.userID = u.id, !.err = d.err]
    /\ UNCHANGED <<users, now>>
    /\ StoreFrame

CallDeleteExpiredTokens ==
    /\ \E fault \in StmtFaults :
        LET d == DeleteExpiredTokens(fault)
        IN  /\ refreshTokens' = d.refreshTokens
            /\ storeCall' = [StoreCall("purge", fault) EXCEPT
                                !.n = d.n, !.err = d.err]
    /\ UNCHANGED <<users, now>>
    /\ StoreFrame

NextStore ==
    \/ StoreTick
    \/ CallCreateUserInDB
    \/ CallSaveRefreshToken
    \/ CallValidateAndFetchUserByTokenHash
    \/ CallDeleteRefreshTokenByHash
    \/ CallDeleteUserRefreshTokens
    \/ CallDeleteExpiredTokens

SpecStore == InitStore /\ [][NextStore]_vars

-----------------------------------------------------------------------------
(* The process from its start.                                             *)
(* main is entered in some environment; config.Load reads it and ends the  *)
(* process or returns the configuration; main then opens the pool and      *)
(* builds the stores, the AuthService, the handlers and the router, and    *)
(* the requests of Spec are served.                                        *)

InitMain ==
    /\ users \in StoredUsers
    /\ refreshTokens = {}
    /\ now = 0
    /\ minted = {}
    /\ faults = 0
    /\ ncalls = 0
    /\ used = {}
    /\ loggedIn = {}
    /\ ledger = NoLedger
    /\ call = [p \in Procs |-> IdleCall]
    /\ storeCall = NoStoreCall
    /\ request = NoRequest
    /\ subsec = 0
    /\ \E env \in Environments : proc = Process("start", env, NoConfig, "")

\* main calls config.Load: log.Fatalf ends the process before Load returns
ConfigLoad ==
    /\ proc.pc = "start"
    /\ proc' = IF Load(proc.env).fatal
               THEN Process("exited", proc.env, NoConfig, "")
               ELSE Process("loaded", proc.env, Load(proc.env).cfg, "")
    /\ UNCHANGED <<users, refreshTokens, now, minted, faults, ncalls, used,
                   loggedIn, ledger, call, storeCall, request, subsec>>

\* main after config.Load: database.InitPgxPool fails and log.Fatalf ends
\* the process, or the stores, the service and the router are built
Setup ==
    /\ proc.pc = "loaded"
    /\ \E pool \in BOOLEAN :
          proc' = IF pool THEN NewAuthService(proc)
                  ELSE Process("exited", proc.env, proc.cfg, "")
    /\ UNCHANGED <<users, refreshTokens, now, minted, faults, ncalls, used,
                   loggedIn, ledger, call, storeCall, request, subsec>>

\* the router serves
Serve == proc.pc = "serving" /\ Next

NextMain == ConfigLoad \/ Setup \/ Serve

SpecMain == InitMain /\ [][NextMain]_vars

-----------------------------------------------------------------------------
(* The service with every store step succeeding and the calls run one      *)
(* after another: no statement meets a fault, at most one call is in       *)
(* flight, and the store's maintenance runs between calls.                 *)

\* no call is in flight
Quiet == \A p \in Procs : ~InFlight(p)

OneAtATime == \A p, q \in Procs : (InFlight(p) /\ InFlight(q)) => p = q

NextSeq ==
    /\ Next
    /\ faults' = 0
    /\ OneAtATime'
    /\ ledger'.removed # ledger.removed => Quiet

SpecSeq == Init /\ [][NextSeq]_vars

-----------------------------------------------------------------------------
(* Properties of the stores *)

\* the last call on a store was op
Called(op) == storeCall.op = op

\* C17: CreateUserInDB returns a user record only when the insert succeeded:
\* a returned user is the row the call added; when the email already exists
\* the call fails with the duplicate-user error; for any other backend error
\* (a server error, or an error that is no database-protocol error, such as
\* a cancelled context) it fails with a storage error; it never returns a
\* user together with a nil error after a failed insert.
C17_CreateUserReturnsInsertedRow ==
    Called("create") =>
        LET inserted == users \ storeCall.users0
        IN  /\ storeCall.err = NilErr =>
                  /\ inserted = {storeCall.u}
                  /\ storeCall.u.email = storeCall.email
            /\ storeCall.err # NilErr =>
                  /\ storeCall.u = NilUser
                  /\ inserted = {}
            /\ (storeCall.fault = "none" /\ Len(storeCall.email) <= VarcharLen
                /\ \E r \in storeCall.users0 : r.email = storeCall.email)
                  => ErrorsIs(storeCall.err, ErrUserAlreadyExists)
            /\ storeCall.fault # "none" =>
                  /\ storeCall.err # NilErr
                  /\ ~ErrorsIs(storeCall.err, ErrUserAlreadyExists)

\* the last call on a store was op, and its statement met no fault
Returned(op) == Called(op) /\ storeCall.fault = "none"

\* C18: DeleteExpiredTokens removes exactly the refresh-token rows whose
\* expires_at is not later than the current time, leaves every other row
\* (and the users table) untouched and returns the number of rows it
\* removed; a second run at the same time removes nothing and returns 0.
C18_PurgeExact ==
    /\ [](Returned("purge") =>
            /\ storeCall.err = NilErr
            /\ refreshTokens = {r \in storeCall.tokens0 : r.expiresAt > storeCall.now0}
            /\ storeCall.n = Cardinality(storeCall.tokens0 \ refreshTokens)
            /\ users = storeCall.users0)
    /\ [][(/\ Returned("purge") /\ now = storeCall.now0
            /\ Returned("purge")' /\ storeCall'.tokens0 = refreshTokens
            /\ storeCall'.now0 = now) =>
            /\ storeCall'.n = 0
            /\ refreshTokens' = refreshTokens]_vars

C18_Witness ==
    /\ Returned("purge")
    /\ storeCall.n = 1
    /\ \E r \in storeCall.tokens0 \ refreshTokens : r.expiresAt = storeCall.now0
    /\ refreshTokens # {}
    /\ DeleteExpiredTokens("none").n = 0

\* the rows the last store call found for its hash that had not expired
LiveRows ==
    {r \in storeCall.tokens0 :
        r.tokenHash = storeCall.hash /\ r.expiresAt > storeCall.now0}

\* the next step is a store call op that meets no fault and finds the tables
\* as this state has them
Then(op) == Returned(op)' /\ storeCall'.tokens0 = refreshTokens

\* C19: ValidateAndFetchUserByTokenHash(h) returns the owning user exactly
\* when a row with token_hash = h and expires_at strictly later than now
\* exists; when no such row exists (the hash never existed, the row has
\* expired, or it was deleted by a rotation or a revocation) it fails with
\* ErrRefreshTokenNotFound, in all these cases alike; a faulted call returns
\* another error and no user; and the call never changes the store.
C19_ValidateExact ==
    /\ [](Called("validate") =>
            /\ refreshTokens = storeCall.tokens0
            /\ users = storeCall.users0
            /\ storeCall.fault # "none" =>
                  /\ storeCall.err \notin {NilErr, ErrRefreshTokenNotFound}
                  /\ storeCall.u = NilUser
            /\ storeCall.fault = "none" =>
                  IF LiveRows # {}
                  THEN /\ storeCall.err = NilErr
                       /\ storeCall.u \in storeCall.users0
                       /\ \A r \in LiveRows : r.userID = storeCall.u.id
                  ELSE /\ storeCall.err = ErrRefreshTokenNotFound
                       /\ storeCall.u = NilUser)
    /\ [][(Returned("delete") /\ Then("validate") /\ storeCall'.hash = storeCall.hash)
            => storeCall'.err = ErrRefreshTokenNotFound]_vars
    /\ [][(/\ Returned("revoke") /\ Then("validate")
            /\ \E r \in storeCall.tokens0 :
                  r.tokenHash = storeCall'.hash /\ r.userID = storeCall.userID)
            => storeCall'.err = ErrRefreshTokenNotFound]_vars

C19_Witness ==
    /\ Returned("validate")
    /\ \E r \in storeCall.tokens0 :
          r.tokenHash = storeCall.hash /\ r.expiresAt = storeCall.now0
    /\ storeCall.err = ErrRefreshTokenNotFound
    /\ refreshTokens = storeCall.tokens0

\* C20: DeleteRefreshTokenByHash is idempotent: an unfaulted call returns
\* success both when a row has the hash (removing it) and when no row has it
\* (changing nothing); rows with other hashes and the users table are never
\* affected; and a second call with the same hash right after a first leaves
\* the store as the first left it and succeeds again.
C20_DeleteIdempotent ==
    /\ [](Called("delete") =>
            /\ users = storeCall.users0
            /\ {r \in refreshTokens : r.tokenHash # storeCall.hash}
                  = {r \in storeCall.tokens0 : r.tokenHash # storeCall.hash}
            /\ storeCall.fault = "none" =>
                  /\ storeCall.err = NilErr
                  /\ \A r \in refreshTokens : r.tokenHash # storeCall.hash
            /\ storeCall.fault # "none" =>
                  /\ storeCall.err # NilErr
                  /\ refreshTokens = storeCall.tokens0)
    /\ [][(Returned("delete") /\ Then("delete") /\ storeCall'.hash = storeCall.hash)
            => /\ storeCall'.err = NilErr
               /\ refreshTokens' = refreshTokens]_vars

C20_Witness ==
    /\ Returned("delete")
    /\ storeCall.err = NilErr
    /\ storeCall.tokens0 # {}
    /\ \A r \in storeCall.tokens0 : r.tokenHash # storeCall.hash
    /\ refreshTokens = storeCall.tokens0

\* the opaque tokens whose hash the user of the last store call owned a row
\* for when the call was made
IssuedToUser ==
    {t \in minted : \E r \in storeCall.tokens0 :
        r.tokenHash = hashToken(t) /\ r.userID = storeCall.userID}

\* C21: after DeleteUserRefreshTokens(u) returns success no refresh-token
\* row owned by u remains, so the validating first step of
\* ProcessRefreshToken fails with ErrInvalidToken for every token issued to
\* u before the call (whether its lookup meets a fault or not), while the
\* rows of every other user and the users table are unchanged; a call that
\* returns an error has changed nothing.
C21_RevokeAll ==
    Called("revoke") =>
        /\ users = storeCall.users0
        /\ {r \in refreshTokens : r.userID # storeCall.userID}
              = {r \in storeCall.tokens0 : r.userID # storeCall.userID}
        /\ storeCall.err = NilErr =>
              /\ \A r \in refreshTokens : r.userID # storeCall.userID
              /\ \A t \in IssuedToUser, fault \in StmtFaults :
                    LET c == ProcessRefreshTokenCheck(t, fault)
                    IN  c.next = "done" /\ c.err = ErrInvalidToken
        /\ storeCall.err # NilErr => refreshTokens = storeCall.tokens0

C21_Witness ==
    /\ Called("revoke")
    /\ storeCall.err = NilErr
    /\ \E r \in storeCall.tokens0 :
          r.userID = storeCall.userID /\ r.expiresAt > now
    /\ \E r \in refreshTokens : r.userID # storeCall.userID /\ r.expiresAt > now
    /\ IssuedToUser # {}

\* a LoginUser or ProcessRefreshToken of user u about to save the hash of
\* opaque token t
Saving(u, t) ==
    [IdleCall EXCEPT !.u = u, !.newTok = t, !.expiresAt = now + RefreshTTL,
                     !.access = GenerateAccessToken(u, now)]

\* C22: in every reachable state at most one refresh-token row exists per
\* token hash.  SaveRefreshToken with a hash that is already stored returns
\* an error (the conflict error when the statement met no other fault) and
\* leaves the existing row, its owner and the users table unchanged; and
\* LoginUser and ProcessRefreshToken hand that error on: with such a hash
\* they fail and return no tokens.
C22_HashUnique ==
    /\ \A r1, r2 \in refreshTokens : r1.tokenHash = r2.tokenHash => r1 = r2
    /\ (Called("save") /\ \E r \in storeCall.tokens0 : r.tokenHash = storeCall.hash)
          => /\ storeCall.err # NilErr
             /\ storeCall.fault = "none" =>
                   storeCall.err.msg = "failed to save refresh token due to conflict"
             /\ refreshTokens = storeCall.tokens0
             /\ users = storeCall.users0
    /\ \A u \in users, t \in minted : RowsByHash(hashToken(t)) # {} =>
          \A finish \in {LoginUserFinish(Saving(u, t), "none"),
                          ProcessRefreshTokenFinish(Saving(u, t), "none")} :
              /\ finish.res.err # NilErr
              /\ finish.res.refresh = NoToken
              /\ finish.res.access = NoAccess
              /\ finish.refreshTokens = refreshTokens

C22_Witness ==
    /\ Called("save")
    /\ storeCall.fault = "none"
    /\ \E r \in storeCall.tokens0 :
          r.tokenHash = storeCall.hash /\ r.userID # storeCall.userID
    /\ storeCall.err.msg = "failed to save refresh token due to conflict"
    /\ refreshTokens = storeCall.tokens0

-----------------------------------------------------------------------------
(* Properties of access-token validation *)

\* the middleware has passed the client's own token, unchanged and under
\* the Bearer scheme, to ValidateToken, at or after the reading it was
\* minted at
OwnTokenValidated ==
    /\ request.pc = "served"
    /\ request.header.words = 2
    /\ request.header.scheme \in {"Bearer", "bearer"}
    /\ request.header.token = request.tok
    /\ ~Earlier(request.at, request.mintedAt)

\* C13 (as amended): an access token minted at time t with lifetime L
\* carries the expiry instant t + L cut to the whole second; it validates
\* successfully at every instant from t up to but excluding that expiry
\* instant, and ValidateToken fails with ErrTokenExpired at that instant and
\* at every later one.
C13_ValidUntilExpiry ==
    OwnTokenValidated =>
        /\ request.tok.exp = request.mintedAt[1] + AccessTTL
        /\ IF Earlier(request.at, <<request.tok.exp, 0>>)
           THEN /\ request.outcome.v.err = NilErr
                /\ request.outcome.v.claims = request.tok
           ELSE request.outcome.v.err = ErrTokenExpired

C13_Witness ==
    /\ OwnTokenValidated
    /\ request.mintedAt[2] > 0
    /\ request.at = <<request.tok.exp, 0>>
    /\ Earlier(request.at, Plus(request.mintedAt, AccessTTL))
    /\ request.outcome.v.err = ErrTokenExpired

\* C13 (as stated): an access token minted at time t with lifetime L
\* validates successfully at every instant from t up to but excluding t + L,
\* and ValidateToken fails with ErrTokenExpired at t + L and at every later
\* instant.
C13_Original ==
    OwnTokenValidated =>
        IF Earlier(request.at, Plus(request.mintedAt, AccessTTL))
        THEN request.outcome.v.err = NilErr
        ELSE request.outcome.v.err = ErrTokenExpired

\* the middleware has passed a token string to ValidateToken
TokenValidated ==
    /\ request.pc = "served"
    /\ request.header.words = 2
    /\ request.header.scheme \in {"Bearer", "bearer"}

\* the string parses as a JWT and carries a signature made with the
\* service's secret under an HMAC method
CorrectlySigned(tokenString) ==
    /\ tokenString.alg \in HMACFamily
    /\ tokenString.key = proc.jwtSecret

\* C14: ValidateToken has exactly four outcomes: the token's claims for a
\* correctly signed token inside its validity window; ErrTokenExpired for a
\* correctly signed token whose expiry has passed; ErrTokenNotValidYet for a
\* correctly signed, unexpired token before its not-before time; and
\* ErrInvalidToken for a bad signature, a malformed token or a non-HMAC
\* algorithm header.  A token whose algorithm is not of the HMAC family is
\* never accepted.
C14_FourOutcomes ==
    TokenValidated =>
        LET tokenString == request.header.token
            v == request.outcome.v
            t == request.at[1]
        IN  /\ v.err \in {NilErr, ErrTokenExpired, ErrTokenNotValidYet, ErrInvalidToken}
            /\ (v.err = NilErr) <=>
                  (/\ CorrectlySigned(tokenString)
                   /\ tokenString.nbf <= t /\ t < tokenString.exp)
            /\ (v.err = NilErr) => v.claims = tokenString
            /\ (v.err # NilErr) => v.claims = NoAccess
            /\ (v.err = ErrTokenExpired) <=>
                  (CorrectlySigned(tokenString) /\ tokenString.exp <= t)
            /\ (v.err = ErrTokenNotValidYet) <=>
                  (/\ CorrectlySigned(tokenString)
                   /\ t < tokenString.exp /\ t < tokenString.nbf)
            /\ (v.err = ErrInvalidToken) <=> ~CorrectlySigned(tokenString)
            /\ tokenString.alg \notin HMACFamily => v.err = ErrInvalidToken

C14_Witness ==
    /\ TokenValidated
    /\ request.header.token.alg = "none"
    /\ request.at[1] < request.header.token.exp
    /\ request.header.token.nbf <= request.at[1]
    /\ request.outcome.v.err = ErrInvalidToken
    /\ ~request.outcome.next

\* the Authorization header carries, under the Bearer scheme, a token that
\* ValidateToken accepts at the time of the request
BearerAccepted ==
    /\ request.header.words = 2
    /\ request.header.scheme \in {"Bearer", "bearer"}
    /\ ValidateToken(request.header.token, request.at[1]).err = NilErr
    /\ CorrectlySigned(request.header.token)
    /\ request.header.token.nbf <= request.at[1]
    /\ request.at[1] < request.header.token.exp

\* C15: the Authenticate middleware calls the downstream handler if and
\* only if the Authorization header carries a bearer token that
\* ValidateToken accepts, and then the request context holds exactly that
\* token's claims and the middleware has written nothing; in every other
\* case (missing header, malformed header, expired or otherwise invalid
\* token) the downstream handler is not called, the context holds no claims
\* and the response status is 401.
C15_AuthenticateGate ==
    request.pc = "served" =>
        /\ request.outcome.next <=> BearerAccepted
        /\ request.outcome.next =>
              /\ request.outcome.ctx = request.header.token
              /\ request.outcome.http = NoHttp
        /\ ~request.outcome.next =>
              /\ request.outcome.http.status = 401
              /\ request.outcome.ctx = NoAccess

C15_Witness ==
    /\ request.pc = "served"
    /\ request.outcome.next
    /\ request.outcome.ctx = request.tok
    /\ request.outcome.ctx.uid \in {u.id : u \in users}

-----------------------------------------------------------------------------
(* Properties of the refresh-token cookie *)

\* the JSON body of a response: every field a handler writes but the status
\* line and the Set-Cookie header
BodyFields(http) == DOMAIN http \ {"status", "cookie"}

\* the attributes of the cookie that carries refresh token value
RefreshCookie(cookie, value) ==
    /\ cookie.name = "refreshToken"
    /\ cookie.value = value
    /\ cookie.path = "/api/auth"
    /\ cookie.httpOnly
    /\ cookie.sameSite = "Strict"
    /\ cookie.secure <=> (proc.cfg.AppEnv = "production")

\* C29: the Login and RefreshToken handlers deliver the refresh token only
\* in the refreshToken cookie (HttpOnly, SameSite=Strict, Path=/api/auth,
\* Secure exactly when AppEnv is production) and never in the JSON body: a
\* 200 response sets the cookie to the refresh token the service returned,
\* and its body has the access token and (for login) the user projection of
\* id and email and nothing else; every other response sets no cookie and
\* carries no token.
C29_RefreshTokenOnlyInCookie ==
    \A p \in Procs : (call[p].pc = "done" /\ call[p].op \in {"login", "refresh"}) =>
        LET c == call[p]
        IN  /\ c.http.status = 200 <=>
                 (c.res.err = NilErr /\ c.res.refresh # NoToken)
            /\ c.http.status = 200 =>
                 /\ c.res.refresh \in minted
                 /\ RefreshCookie(c.http.cookie, c.res.refresh)
                 /\ BodyFields(c.http) = {"error", "message", "accessToken", "user"}
                 /\ c.http.error = "" /\ c.http.message = ""
                 /\ c.http.accessToken = c.res.access
                 /\ c.http.accessToken # NoAccess
                 /\ c.http.user = IF c.op = "login" THEN c.res.info ELSE NilInfo
                 /\ DOMAIN c.http.user = {"id", "email"}
            /\ c.http.status # 200 =>
                 /\ c.http.cookie = NoCookie
                 /\ c.http.accessToken = NoAccess
                 /\ c.http.user = NilInfo

C29_Witness ==
    /\ proc.cfg.AppEnv = "production"
    /\ \E p, q \in Procs :
        /\ LoginThenRefresh(p, q)
        /\ call[p].http.cookie.secure
        /\ call[p].http.cookie.value = call[p].res.refresh
        /\ call[q].http.cookie.secure
        /\ call[q].http.cookie.value = call[q].res.refresh
        /\ call[q].http.cookie.value # call[p].http.cookie.value

-----------------------------------------------------------------------------
(* Properties of the signing secret *)

\* the secrets config.Load refuses
PlaceholderSecrets == {"", "default"}

\* JWT_SECRET is unset, empty or "default" in environment env
BadSecret(env) ==
    ~env.JWT_SECRET.exists \/ env.JWT_SECRET.value \in PlaceholderSecrets

\* C30: the service never operates with an empty or placeholder signing
\* secret.  When JWT_SECRET is unset, empty or "default", config.Load ends
\* the process: it never gets past start-up, no AuthService is built and no
\* request is served.  A serving process has a secret that is neither, every
\* access token it makes is signed with that secret, and ValidateToken
\* refuses the same claims signed with "" or "default".
C30_NoPlaceholderSecret ==
    /\ BadSecret(proc.env) =>
          /\ proc.pc \in {"start", "exited"}
          /\ proc.cfg = NoConfig
          /\ ncalls = 0
          /\ \A p \in Procs : call[p] = IdleCall
    /\ proc.pc \in {"loaded", "serving"} =>
          proc.cfg.JWTSecret \notin PlaceholderSecrets
    /\ proc.pc = "serving" =>
          /\ proc.jwtSecret = proc.env.JWT_SECRET.value
          /\ proc.jwtSecret \notin PlaceholderSecrets
    /\ \A p \in Procs : \A tok \in {call[p].access, call[p].res.access} :
          tok # NoAccess =>
             /\ proc.pc = "serving"
             /\ tok.key = proc.jwtSecret
             /\ tok.key \notin PlaceholderSecrets
             /\ ValidateToken(tok, tok.iat).err = NilErr
             /\ \A key \in PlaceholderSecrets :
                   ValidateToken([tok EXCEPT !.key = key], tok.iat).err # NilErr

C30_Witness ==
    /\ proc.pc = "exited"
    /\ BadSecret(proc.env)
    /\ proc.env.JWT_SECRET.exists
    /\ proc.env.JWT_SECRET.value = ""

-----------------------------------------------------------------------------
(* Properties of an interrupted rotation *)

\* handler p takes the saving step of a rotation, and the save fails
FailedSaveStep(p) ==
    /\ call[p].pc = "ref_save"
    /\ call'[p].pc = "done"
    /\ call'[p].res.err # NilErr

\* a rotation whose delete returned without error, stopped before its save
\* (the call is cancelled, or the process dies) or ended by a failed save
Interrupted(p) ==
    /\ call[p].op = "refresh"
    /\ ~call[p].delErr
    /\ \/ call[p].pc = "ref_save"
       \/ call[p].pc = "done" /\ call[p].newTok # NoToken /\ ~Succeeded(p)

\* C31: rotation is not atomic.  When a ProcessRefreshToken call is
\* cancelled or fails after the old token's row was deleted and before the
\* new token's row is saved, the old token has no row (a refresh with it is
\* rejected) and the new token has none either, the caller has received no
\* access token, no refresh token and no cookie, and the failing step leaves
\* both tables as they were: the user's other rows and the users table are
\* untouched.
C31_RotationNotAtomic ==
    /\ [](\A p \in Procs : Interrupted(p) =>
            /\ RowsByHash(hashToken(call[p].tok)) = {}
            /\ ProcessRefreshTokenCheck(call[p].tok, "none").err = ErrInvalidToken
            /\ RowsByHash(hashToken(call[p].newTok)) = {}
            /\ call[p].res.access = NoAccess
            /\ call[p].res.refresh = NoToken
            /\ call[p].http.accessToken = NoAccess
            /\ call[p].http.cookie = NoCookie)
    /\ [][\A p \in Procs : FailedSaveStep(p) =>
            /\ refreshTokens' = refreshTokens
            /\ users' = users]_vars
    /\ [][\A p \in Procs :
            (call[p].pc = "ref_delete" /\ call'[p].pc = "ref_save"
             /\ ~call'[p].delErr) =>
            /\ refreshTokens' = refreshTokens \ RowsByHash(hashToken(call[p].tok))
            /\ users' = users]_vars

\* a rotation of one of a user's two tokens lost its save: the user's other
\* row is still there
C31_Witness ==
    \E p \in Procs :
        /\ Interrupted(p) /\ call[p].pc = "done"
        /\ call[p].pre = "valid"
        /\ \E r \in refreshTokens : r.userID = call[p].u.id

-----------------------------------------------------------------------------
(* Properties of revocation against rotations in flight *)

\* C32: account-wide revocation holds against in-flight rotations: once
\* DeleteUserRefreshTokens(u) has completed while a ProcessRefreshToken for
\* u was in flight, no unexpired refresh-token row owned by u exists unless
\* a LoginUser for u has succeeded since.
C32_RevocationHolds ==
    \A p \in Procs : (call[p].op = "refresh" /\ call[p].revoked) =>
        \A r \in refreshTokens : r.userID = call[p].u.id => r.expiresAt <= now

-----------------------------------------------------------------------------
(* Properties of ownership under rotation *)

\* handler p's validating lookup accepts the presented token
AcceptStep(p) == call[p].pc # "ref_delete" /\ call'[p].pc = "ref_delete"

\* handler p's rotation saves its new row and returns
SavedStep(p) ==
    /\ call[p].pc = "ref_save"
    /\ call'[p].pc = "done"
    /\ call'[p].res.err = NilErr

\* a finished call that handed out a refresh token
Issued(p) ==
    /\ call[p].pc = "done"
    /\ call[p].op \in {"login", "refresh"}
    /\ Succeeded(p)

\* C33: rotation preserves ownership.  The validating lookup of
\* ProcessRefreshToken(T) takes the user whose id T's one row carries; the
\* row a successful rotation saves carries that user's id, and the access
\* token it returns that user's id and email; a row of a token handed out to
\* one user is owned by that user, and a rotation of that token runs for
\* that user, so no sequence of logins and rotations makes a token issued to
\* one user resolve to another.
C33_RotationKeepsOwner ==
    /\ [][\A p \in Procs : AcceptStep(p) =>
            /\ call'[p].u \in users
            /\ {r.userID : r \in RowsByHash(hashToken(call'[p].tok))}
                 = {call'[p].u.id}]_vars
    /\ [][\A p \in Procs : SavedStep(p) =>
            refreshTokens' \ refreshTokens =
               {[userID |-> call[p].u.id,
                 tokenHash |-> hashToken(call'[p].res.refresh),
                 expiresAt |-> call[p].expiresAt]}]_vars
    /\ [](\A p \in Procs : (Finished(p, "refresh") /\ Succeeded(p)) =>
            /\ call[p].u \in users
            /\ call[p].res.access.uid = call[p].u.id
            /\ call[p].res.access.sub = call[p].u.id
            /\ call[p].res.access.email = call[p].u.email)
    /\ [](\A p \in Procs : Issued(p) =>
            /\ \A r \in RowsByHash(hashToken(call[p].res.refresh)) :
                  r.userID = call[p].u.id
            /\ \A q \in Procs :
                  (call[q].op = "refresh" /\ call[q].tok = call[p].res.refresh
                   /\ call[q].u # NilUser) => call[q].u = call[p].u)

\* with two users registered, the second one's login token was rotated
C33_Witness ==
    \E p, q \in Procs :
        /\ LoginThenRefresh(p, q)
        /\ Cardinality(users) = 2
        /\ call[q].u.id = 2
        /\ call[q].res.access.uid = 2
        /\ \E r \in RowsByHash(hashToken(call[q].res.refresh)) : r.userID = 2

-----------------------------------------------------------------------------
(* Properties of the number of sessions *)

\* the rows user id owns, the logins that succeeded for it, and the rows of
\* its that revocation or purge removed
RowsOf(id) == {r \in refreshTokens : r.userID = id}
LoginsOf(id) == {i \in ledger.issued : i.userID = id /\ i.login = i.tok}
RemovedOf(id) == {r \in ledger.removed : r.userID = id}

\* the rotation chain of a login: the login's token and its successors
Chain(login) == {i.tok : i \in {j \in ledger.issued : j.login = login}}
\* the chain's latest token: the one no rotation has consumed
Latest(login) == Chain(login) \ used

\* a refresh with t would be accepted now
Usable(t) == ValidRows(hashToken(t)) # {}

\* handler p takes a step of a LoginUser call
LoginStep(p) ==
    /\ call'[p].op = "login"
    /\ ncalls' = ncalls + 1 \/ call[p].pc = "login_save"

\* the number of rows a user owns is the number of its successful logins
\* minus the rows revocation and purge removed
RowsBalance ==
    Quiet => \A u \in users :
        Cardinality(RowsOf(u.id))
           = Cardinality(LoginsOf(u.id)) - Cardinality(RemovedOf(u.id))

\* C34, as stated: LoginUser never revokes existing sessions and a rotation
\* replaces one row by one row: with all store steps succeeding and calls
\* run one after another, the number of refresh-token rows owned by a user
\* equals the number of that user's successful logins minus rows removed by
\* revocation or purge, and each login's rotation chain has exactly one
\* usable token (its latest).
C34_Original ==
    /\ RowsBalance
    /\ Quiet => \A i \in ledger.issued :
          /\ {t \in Chain(i.login) : Usable(t)} = Latest(i.login)
          /\ Cardinality(Latest(i.login)) = 1

\* C34: LoginUser never revokes existing sessions and a rotation replaces
\* one row by one row: with all store steps succeeding and calls run one
\* after another, the number of refresh-token rows owned by a user equals
\* the number of that user's successful logins minus rows removed by
\* revocation or purge; each login's rotation chain has one latest token
\* and no row but that token's, which is stored unless revocation or purge
\* removed it and usable exactly while it is stored and unexpired.
C34_OneRowPerSession ==
    /\ [](RowsBalance)
    /\ [](Quiet => \A i \in ledger.issued :
            /\ Cardinality(Latest(i.login)) = 1
            /\ \A t \in Chain(i.login) :
                  /\ RowsByHash(hashToken(t)) # {} =>
                        /\ t \in Latest(i.login)
                        /\ RowsByHash(hashToken(t)) \subseteq RowsOf(i.userID)
                  /\ (t \in Latest(i.login) /\ RowsByHash(hashToken(t)) = {}) =>
                        \E r \in ledger.removed : r.tokenHash = hashToken(t)
                  /\ Usable(t) <=>
                        \E r \in RowsByHash(hashToken(t)) : r.expiresAt > now)
    /\ [][\A p \in Procs : LoginStep(p) =>
            refreshTokens \subseteq refreshTokens']_vars
    /\ [][\A p \in Procs : (call[p].pc = "login_save" /\ call'[p].pc = "done") =>
            Cardinality(refreshTokens' \ refreshTokens) = 1]_vars
    /\ [][\A p \in Procs : (call[p].pc = "ref_delete" /\ call'[p].pc = "ref_save") =>
            /\ refreshTokens' \subseteq refreshTokens
            /\ refreshTokens \ refreshTokens' = RowsByHash(hashToken(call[p].tok))
            /\ Cardinality(refreshTokens \ refreshTokens') = 1]_vars
    /\ [][\A p \in Procs : (call[p].pc = "ref_save" /\ call'[p].pc = "done") =>
            /\ refreshTokens \subseteq refreshTokens'
            /\ Cardinality(refreshTokens' \ refreshTokens) = 1]_vars

\* a user with two logins, one of them rotated: two rows
C34_Witness ==
    /\ Quiet
    /\ \E u \in users :
        /\ Cardinality(LoginsOf(u.id)) = 2
        /\ Cardinality(RowsOf(u.id)) = 2
        /\ \E i \in LoginsOf(u.id) : Cardinality(Chain(i.login)) = 2

-----------------------------------------------------------------------------
(* Properties of access tokens and the store *)

\* the bearer header that carries access token a
Bearer(a) == Header(2, "Bearer", a)

\* C35: the outcome of ValidateToken depends only on the token string, the
\* signing secret and the current time, never on store state: whatever the
\* tables hold, the access token a LoginUser or ProcessRefreshToken returned
\* is accepted (by ValidateToken, with its own claims, and by the
\* Authenticate middleware) exactly while the clock is before its expiry,
\* also after its session's refresh token was rotated, after logout and
\* after DeleteUserRefreshTokens for its user.
C35_AccessTokenIgnoresStore ==
    \A p \in Procs : Issued(p) =>
        LET a == call[p].res.access
        IN  /\ ValidateToken(a, now).err = NilErr <=> now < a.exp
            /\ ValidateToken(a, now).err = NilErr =>
                  ValidateToken(a, now).claims = a
            /\ ValidateToken(a, now).err # NilErr =>
                  ValidateToken(a, now).err = ErrTokenExpired
            /\ Authenticate(Bearer(a), now).next <=> now < a.exp

\* a login's access token is still accepted although the login's refresh
\* token was rotated, the session was logged out and the user's rows were
\* revoked
C35_Witness ==
    \E p, q \in Procs :
        /\ Finished(p, "login") /\ Succeeded(p)
        /\ call[p].res.refresh \in used
        /\ Finished(q, "logout")
        /\ call[q].tok \in Chain(call[p].res.refresh)
        /\ RowsOf(call[p].u.id) = {}
        /\ RemovedOf(call[p].u.id) # {}
        /\ ValidateToken(call[p].res.access, now).err = NilErr
        /\ Authenticate(Bearer(call[p].res.access), now).ctx.uid = call[p].u.id

-----------------------------------------------------------------------------
(* Properties of the expiry boundary *)

\* row r is accepted by ValidateAndFetchUserByTokenHash now
Accepted(r) == ValidateAndFetchUserByTokenHash(r.tokenHash, "none").err = NilErr

\* row r is removed by a DeleteExpiredTokens that runs now
Purgeable(r) == r \notin DeleteExpiredTokens("none").refreshTokens

\* C36: at every instant every refresh-token row is in exactly one of two
\* classes: accepted by ValidateAndFetchUserByTokenHash (expires_at > now)
\* or removable by DeleteExpiredTokens (expires_at <= now); so a purge never
\* removes a token that a refresh would accept, and a token at exactly its
\* expiry instant is rejected by refresh.
C36_AcceptedOrPurgeable ==
    /\ \A r \in refreshTokens :
          /\ Accepted(r) <=> ~Purgeable(r)
          /\ Accepted(r) <=> r.expiresAt > now
          /\ Purgeable(r) <=> r.expiresAt <= now
          /\ Accepted(r) =>
                ValidateAndFetchUserByTokenHash(r.tokenHash, "none").u.id = r.userID
          /\ ProcessRefreshTokenCheck(r.tokenHash[2], "none").err = NilErr
                <=> Accepted(r)
          /\ r.expiresAt = now =>
                ProcessRefreshTokenCheck(r.tokenHash[2], "none").err = ErrInvalidToken
    /\ Returned("purge") =>
          \A r \in storeCall.tokens0 \ refreshTokens : r.expiresAt <= storeCall.now0

\* a purge has removed a row at its expiry instant and left one that a
\* refresh accepts
C36_Witness ==
    /\ Returned("purge")
    /\ now = storeCall.now0
    /\ \E r \in storeCall.tokens0 \ refreshTokens : r.expiresAt = now
    /\ \E r \in refreshTokens : Accepted(r) /\ r.expiresAt = now + 1

-----------------------------------------------------------------------------
(* Properties of expired rows *)

\* the rows of token tok that have expired
ExpiredRows(tok) == {r \in RowsByHash(hashToken(tok)) : r.expiresAt <= now}

\* handler p runs the delete of its rotation
DeleteStep(p) == call[p].pc = "ref_delete" /\ call'[p].pc # "ref_delete"

\* C37: presenting an expired refresh token to ProcessRefreshToken fails
\* with ErrInvalidToken and leaves the expired row in the store: the call
\* ends in its validating step, which changes no table.  Expired rows
\* disappear only through DeleteExpiredTokens, DeleteUserRefreshTokens or
\* the DeleteRefreshTokenByHash of a rotation of that very token (which the
\* lookup accepted before the row expired).
C37_ExpiredRowsStay ==
    /\ [][\A p \in Procs : (ValidateStep(p) /\ ExpiredRows(call'[p].tok) # {}) =>
            /\ call'[p].pc = "done"
            /\ call'[p].res.err = ErrInvalidToken
            /\ call'[p].res.refresh = NoToken
            /\ call'[p].http.status = 401
            /\ refreshTokens' = refreshTokens
            /\ users' = users]_vars
    /\ [][\A r \in refreshTokens \ refreshTokens' : r.expiresAt <= now =>
            \/ r \in ledger'.removed
            \/ \E p \in Procs : DeleteStep(p) /\ r.tokenHash = hashToken(call[p].tok)]_vars

\* a refresh with a token whose row has expired was rejected, and the row
\* (never purged) is still stored
C37_Witness ==
    \E p \in Procs :
        /\ Finished(p, "refresh")
        /\ ~call[p].faulted
        /\ call[p].res.err = ErrInvalidToken
        /\ ExpiredRows(call[p].tok) # {}
        /\ ledger.removed = {}

-----------------------------------------------------------------------------
(* Properties of a failing login *)

\* handler p's LoginUser call ends in this step, with an error
LoginFails(p) == LoginStep(p) /\ call'[p].pc = "done" /\ call'[p].res.err # NilErr

\* C38: every failing LoginUser (empty field, unknown email, wrong
\* password, lookup error, or failed save of the refresh token) leaves the
\* users and refresh_tokens tables unchanged and returns neither an access
\* token nor a refresh token: no step of a call that fails changes a table
\* (the lookup step never does), and the call's result and the handler's
\* response carry no token and no cookie.
C38_FailedLoginTouchesNothing ==
    /\ [][\A p \in Procs : LoginFails(p) =>
            /\ refreshTokens' = refreshTokens
            /\ users' = users
            /\ loggedIn' = loggedIn]_vars
    /\ [][\A p \in Procs : (LoginStep(p) /\ call[p].pc # "login_save") =>
            /\ refreshTokens' = refreshTokens
            /\ users' = users]_vars
    /\ [](\A p \in Procs : (Finished(p, "login") /\ ~Succeeded(p)) =>
            /\ call[p].res.access = NoAccess
            /\ call[p].res.refresh = NoToken
            /\ call[p].res.info = NilInfo
            /\ call[p].http.accessToken = NoAccess
            /\ call[p].http.cookie = NoCookie
            /\ call[p].http.status \in {400, 401, 500}
            /\ call[p].newTok # NoToken =>
                  RowsByHash(hashToken(call[p].newTok)) = {})

\* a login of a registered user failed at the save of its refresh token
C38_Witness ==
    \E p \in Procs :
        /\ Finished(p, "login") /\ ~Succeeded(p)
        /\ call[p].pre = "registered"
        /\ call[p].newTok # NoToken
        /\ call[p].access # NoAccess
        /\ call[p].http.status = 500

-----------------------------------------------------------------------------
(* Properties of the Secure attribute *)

\* C39: every handler that writes the refreshToken cookie (Login,
\* RefreshToken and Logout) computes the Secure attribute by the same rule:
\* in every response that sets the cookie, Secure is true exactly when
\* AppEnv is production.
C39_SameSecureRule ==
    \A p \in Procs :
        (call[p].pc = "done" /\ call[p].op \in {"login", "refresh", "logout"}
         /\ call[p].http.cookie # NoCookie) =>
            (call[p].http.cookie.secure <=> proc.cfg.AppEnv = "production")

====
